---------------------------- MODULE Spec2Model ----------------------------
(***************************************************************************)
(* A model of api_test_project.metrics.metrics_collector.MetricsCollector: *)
(* the collector's fields, its recording operations (record_request,       *)
(* record_stream_completion, record_error, reset) and its aggregators      *)
(* (get_success_rate, get_current_rps, get_recent_latencies,               *)
(* get_error_summary, get_session_metrics), first as                       *)
(* functions on the collector's value and one step per call, then          *)
(* statement by statement for threads that share the collector's lock;     *)
(* its export save_results, with the result directories as the variable    *)
(* disk; and the recordings that api_client.client.LlmApiClient makes in   *)
(* _make_request and _handle_streaming_response. Beside the collector:     *)
(* the token table of LlmApiClient, the retry loop of                      *)
(* api_client.DreaminkFloraClient, the ClientPool and the process          *)
(* reference of test_runner.TestRunner.                                    *)
(*                                                                         *)
(* Durations (ttft, ttct) are integers in an abstract time unit, and       *)
(* time.time() is the variable clock, which the environment advances.      *)
(* A rate is the pair <<numerator, denominator>>.                          *)
(***************************************************************************)
EXTENDS Integers, Sequences, FiniteSets, TLC

VARIABLES
    requests,             \* self._requests
    stream_metrics,       \* self._stream_metrics
    errors,               \* self._errors (defaultdict(list))
    request_times,        \* self._request_times (deque, maxlen 1000)
    recent_ttfts,         \* self._recent_ttfts (deque, maxlen 100)
    recent_ttcts,         \* self._recent_ttcts (deque, maxlen 100)
    session_start_time,   \* self._session_start_time
    success_count,        \* self._success_count
    failure_count,        \* self._failure_count
    timeout_count,        \* self._timeout_count
    total_tokens,         \* self._total_tokens
    sse_endpoints,        \* self._sse_endpoints
    non_sse_endpoints,    \* self._non_sse_endpoints
    sse_requests,         \* self._sse_requests
    non_sse_requests,     \* self._non_sse_requests
    sse_request_ids,      \* self._sse_request_ids
    total_request_count,  \* self._total_request_count
    clock,                \* the value time.time() returns
    lock,                 \* self._lock (threading.RLock): its owner and its count
    pc,                   \* per worker thread: the statement it is to execute next
    frame,                \* per worker thread: the arguments and locals of its call
    log,                  \* history: the calls in the order they took the lock
    last,                 \* history: the last call, its arguments and the collector before it
    held,                 \* the TestResult a caller got from get_session_metrics and keeps
    disk,                 \* the result directories save_results made, and their files
    pool,                 \* a ClientPool: its clients, its semaphore and its lock
    client,               \* an LlmApiClient: its token table and self._last_token_index
    runner                \* a TestRunner: self.current_test_process and the test times

fields == <<requests, stream_metrics, errors, request_times, recent_ttfts,
            recent_ttcts, session_start_time, success_count, failure_count,
            timeout_count, total_tokens, sse_endpoints, non_sse_endpoints,
            sse_requests, non_sse_requests, sse_request_ids,
            total_request_count>>

threads == <<lock, pc, frame, log>>

\* The objects beside the collector.
others == <<pool, client, runner>>

vars == <<fields, clock, threads, last, held, disk, others>>

---------------------------------------------------------------------------
(* Bounds of the model and program constants.                              *)

\* The number of record_* calls since the last reset.
MaxCalls == 3

\* The largest value of time.time().
MaxClock == 1

\* deque(maxlen=...) of the three recent windows.
RequestTimesMaxLen == 1000
RecentTtftsMaxLen == 100
RecentTtctsMaxLen == 100

\* Optional[float] = None / Optional[str] = None.
NoneF == -1
NoneId == "<None>"

Endpoints == {"/x"}
Methods == {"GET"}
RequestIds == {"r1", "r2"}
StatusCodes == {200, 500}
Ttfts == {1}
Ttcts == {2}
ContentLengths == {10}
TokenCounts == {50}
ErrorTypes == {"timeout", "network"}
Messages == {"msg"}

---------------------------------------------------------------------------
(* The collector as one value, and its operations as functions on it.      *)

Self ==
    [requests |-> requests, stream_metrics |-> stream_metrics,
     errors |-> errors, request_times |-> request_times,
     recent_ttfts |-> recent_ttfts, recent_ttcts |-> recent_ttcts,
     session_start_time |-> session_start_time,
     success_count |-> success_count, failure_count |-> failure_count,
     timeout_count |-> timeout_count, total_tokens |-> total_tokens,
     sse_endpoints |-> sse_endpoints, non_sse_endpoints |-> non_sse_endpoints,
     sse_requests |-> sse_requests, non_sse_requests |-> non_sse_requests,
     sse_request_ids |-> sse_request_ids,
     total_request_count |-> total_request_count]

\* MetricsCollector.__init__ at time t.
Fresh(t) ==
    [requests |-> <<>>, stream_metrics |-> <<>>,
     errors |-> <<>>, request_times |-> <<>>,
     recent_ttfts |-> <<>>, recent_ttcts |-> <<>>,
     session_start_time |-> t,
     success_count |-> 0, failure_count |-> 0,
     timeout_count |-> 0, total_tokens |-> 0,
     sse_endpoints |-> {}, non_sse_endpoints |-> {},
     sse_requests |-> <<>>, non_sse_requests |-> <<>>,
     sse_request_ids |-> {},
     total_request_count |-> 0]

\* Mutant of DequeAppend: a full deque takes no further item.
DequeAppend_KeepsOldest(q, x, maxlen) ==
    IF Len(q) >= maxlen THEN q ELSE Append(q, x)

\* deque.append with maxlen: a full deque drops its oldest item.
DequeAppend(q, x, maxlen) ==
    IF Len(q) >= maxlen THEN Append(Tail(q), x) ELSE Append(q, x)

\* Mutant of SyntheticId: the timestamp is left out of the id.
SyntheticId_EndpointOnly(endpoint, timestamp) == endpoint

\* f"{endpoint}-{timestamp}"
SyntheticId(endpoint, timestamp) == endpoint \o "-" \o ToString(timestamp)

\* if request_id is None: request_id = f"{endpoint}-{timestamp}"
EffectiveId(request_id, endpoint, timestamp) ==
    IF request_id = NoneId THEN SyntheticId(endpoint, timestamp) ELSE request_id

\* Mutant of IsSuccess: the upper limit taken inclusively.
IsSuccess_Inclusive(status_code) == 200 <= status_code /\ status_code <= 300

\* 200 <= status_code < 300
IsSuccess(status_code) == 200 <= status_code /\ status_code < 300

\* if 200 <= status_code < 300: success += 1, else: failure += 1
Tally(s, status_code) ==
    IF IsSuccess(status_code)
    THEN [s EXCEPT !.success_count = @ + 1]
    ELSE [s EXCEPT !.failure_count = @ + 1]

\* Mutant of PushTtft: the ttft is pushed whether it is None or not.
PushTtft_Always(q, ttft) == DequeAppend(q, ttft, RecentTtftsMaxLen)

\* if ttft is not None: self._recent_ttfts.append(ttft)
PushTtft(q, ttft) ==
    IF ttft # NoneF THEN DequeAppend(q, ttft, RecentTtftsMaxLen) ELSE q

\* Mutant of Classify: a streaming request is filed in both partitions.
Classify_StreamInBoth(s, request_data) ==
    IF request_data.is_stream
    THEN [s EXCEPT !.sse_endpoints = @ \cup {request_data.endpoint},
                   !.sse_requests = Append(@, request_data),
                   !.non_sse_requests = Append(@, request_data)]
    ELSE Tally([s EXCEPT !.non_sse_endpoints = @ \cup {request_data.endpoint},
                         !.non_sse_requests = Append(@, request_data)],
               request_data.status_code)

\* Mutant of Classify: a streaming request is tallied at record_request too.
Classify_TalliesStreams(s, request_data) ==
    IF request_data.is_stream
    THEN Tally([s EXCEPT !.sse_endpoints = @ \cup {request_data.endpoint},
                         !.sse_requests = Append(@, request_data)],
               request_data.status_code)
    ELSE Tally([s EXCEPT !.non_sse_endpoints = @ \cup {request_data.endpoint},
                         !.non_sse_requests = Append(@, request_data)],
               request_data.status_code)

\* The branch of record_request on is_stream.
Classify(s, request_data) ==
    IF request_data.is_stream
    THEN [s EXCEPT !.sse_endpoints = @ \cup {request_data.endpoint},
                   !.sse_requests = Append(@, request_data)]
    ELSE Tally([s EXCEPT !.non_sse_endpoints = @ \cup {request_data.endpoint},
                         !.non_sse_requests = Append(@, request_data)],
               request_data.status_code)

\* Mutant of record_request: the full history is kept as the request times
\* are, in a list of bounded length.
record_request_BoundedHistory(s, endpoint, method, status_code, ttft, ttct, content_length, is_stream, request_id, timestamp) ==
    LET request_data ==
            [timestamp |-> timestamp, endpoint |-> endpoint, method |-> method,
             status_code |-> status_code, ttft |-> ttft, ttct |-> ttct,
             content_length |-> content_length, is_stream |-> is_stream,
             request_id |-> EffectiveId(request_id, endpoint, timestamp)]
        s1 == [s EXCEPT
                 !.requests = DequeAppend(@, request_data, RequestTimesMaxLen),
                 !.request_times = DequeAppend(@, timestamp, RequestTimesMaxLen),
                 !.total_request_count = @ + 1,
                 !.recent_ttfts = PushTtft(@, ttft),
                 !.recent_ttcts = DequeAppend(@, ttct, RecentTtctsMaxLen)]
    IN  Classify(s1, request_data)

record_request(s, endpoint, method, status_code, ttft, ttct, content_length, is_stream, request_id, timestamp) ==
    LET request_data ==
            [timestamp |-> timestamp, endpoint |-> endpoint, method |-> method,
             status_code |-> status_code, ttft |-> ttft, ttct |-> ttct,
             content_length |-> content_length, is_stream |-> is_stream,
             request_id |-> EffectiveId(request_id, endpoint, timestamp)]
        s1 == [s EXCEPT
                 !.requests = Append(@, request_data),
                 !.request_times = DequeAppend(@, timestamp, RequestTimesMaxLen),
                 !.total_request_count = @ + 1,
                 !.recent_ttfts = PushTtft(@, ttft),
                 !.recent_ttcts = DequeAppend(@, ttct, RecentTtctsMaxLen)]
    IN  Classify(s1, request_data)

\* Mutant of TokensPerSecond: the division is made whatever ttct is.
TokensPerSecond_Unguarded(token_count, ttct) == <<token_count, ttct>>

\* tokens_per_second = token_count / ttct if ttct > 0 else 0, as <<num, den>>
TokensPerSecond(token_count, ttct) ==
    IF ttct > 0 THEN <<token_count, ttct>> ELSE <<0, 1>>

\* Mutant of NotYetCounted: the seen-set is not consulted.
NotYetCounted_Always(s, request_id) == TRUE

\* if request_id not in self._sse_request_ids
NotYetCounted(s, request_id) == request_id \notin s.sse_request_ids

\* Mutant of TallyOnce: a later report of a request already tallied moves
\* its tally to the counter of the status reported last.
TallyOnce_LastWins(s, request_id, status_code) ==
    IF NotYetCounted(s, request_id)
    THEN Tally([s EXCEPT !.sse_request_ids = @ \cup {request_id}], status_code)
    ELSE LET earlier == {i \in 1..(Len(s.stream_metrics) - 1) :
                            s.stream_metrics[i].request_id = request_id}
             latest == CHOOSE i \in earlier : \A j \in earlier : j <= i
             before == s.stream_metrics[latest].status_code
         IN  IF earlier = {} \/ IsSuccess(before) = IsSuccess(status_code)
             THEN s
             ELSE IF IsSuccess(status_code)
                  THEN [s EXCEPT !.success_count = @ + 1,
                                 !.failure_count = @ - 1]
                  ELSE [s EXCEPT !.success_count = @ - 1,
                                 !.failure_count = @ + 1]

\* The guarded tally that ends record_stream_completion.
TallyOnce(s, request_id, status_code) ==
    IF NotYetCounted(s, request_id)
    THEN Tally([s EXCEPT !.sse_request_ids = @ \cup {request_id}], status_code)
    ELSE s

record_stream_completion(s, endpoint, status_code, ttft, ttct, token_count, request_id, timestamp) ==
    LET rid == EffectiveId(request_id, endpoint, timestamp)
        stream_data ==
            [timestamp |-> timestamp, endpoint |-> endpoint,
             status_code |-> status_code, ttft |-> ttft, ttct |-> ttct,
             token_count |-> token_count,
             tokens_per_second |-> TokensPerSecond(token_count, ttct),
             request_id |-> rid]
        s1 == [s EXCEPT
                 !.stream_metrics = Append(@, stream_data),
                 !.recent_ttfts = DequeAppend(@, ttft, RecentTtftsMaxLen),
                 !.recent_ttcts = DequeAppend(@, ttct, RecentTtctsMaxLen),
                 !.total_tokens = @ + token_count,
                 !.sse_endpoints = @ \cup {endpoint},
                 !.sse_requests = Append(@, stream_data)]
    IN  TallyOnce(s1, rid, status_code)

\* self._errors[error_type].append(error_data) on a defaultdict(list)
ErrorsAppend(errs, error_type, error_data) ==
    IF error_type \in DOMAIN errs
    THEN [errs EXCEPT ![error_type] = Append(@, error_data)]
    ELSE [k \in DOMAIN errs \cup {error_type} |->
            IF k = error_type THEN <<error_data>> ELSE errs[k]]

\* Mutant of CountTimeout: every error counts as a timeout.
CountTimeout_Always(s, error_type) == [s EXCEPT !.timeout_count = @ + 1]

\* if error_type == "timeout": self._timeout_count += 1
CountTimeout(s, error_type) ==
    IF error_type = "timeout" THEN [s EXCEPT !.timeout_count = @ + 1] ELSE s

\* Mutant of record_error: the error is counted as a request as well.
record_error_CountsRequest(s, error_type, error_message, endpoint, timestamp) ==
    LET error_data == [timestamp |-> timestamp, message |-> error_message,
                       endpoint |-> endpoint]
    IN  [CountTimeout(s, error_type) EXCEPT
           !.failure_count = @ + 1,
           !.total_request_count = @ + 1,
           !.errors = ErrorsAppend(@, error_type, error_data)]

record_error(s, error_type, error_message, endpoint, timestamp) ==
    LET error_data == [timestamp |-> timestamp, message |-> error_message,
                       endpoint |-> endpoint]
    IN  [CountTimeout(s, error_type) EXCEPT
           !.failure_count = @ + 1,
           !.errors = ErrorsAppend(@, error_type, error_data)]

\* Mutant of reset: the seen-set of stream request ids is not cleared.
reset_KeepsSeenIds(s, t) ==
    [s EXCEPT
       !.requests = <<>>, !.stream_metrics = <<>>, !.errors = <<>>,
       !.request_times = <<>>, !.recent_ttfts = <<>>, !.recent_ttcts = <<>>,
       !.session_start_time = t,
       !.success_count = 0, !.failure_count = 0, !.timeout_count = 0,
       !.total_tokens = 0,
       !.sse_endpoints = {}, !.non_sse_endpoints = {},
       !.sse_requests = <<>>, !.non_sse_requests = <<>>,
       !.total_request_count = 0]

\* MetricsCollector.reset at time t.
reset(s, t) ==
    [s EXCEPT
       !.requests = <<>>, !.stream_metrics = <<>>, !.errors = <<>>,
       !.request_times = <<>>, !.recent_ttfts = <<>>, !.recent_ttcts = <<>>,
       !.session_start_time = t,
       !.success_count = 0, !.failure_count = 0, !.timeout_count = 0,
       !.total_tokens = 0,
       !.sse_endpoints = {}, !.non_sse_endpoints = {},
       !.sse_requests = <<>>, !.non_sse_requests = <<>>,
       !.sse_request_ids = {},
       !.total_request_count = 0]

\* Mutant of get_success_rate: the division is made without the test of
\* the total.
get_success_rate_Unguarded(s) ==
    <<s.success_count, s.success_count + s.failure_count>>

\* success / (success + failure) as <<num, den>>; 0.0 when nothing was tallied.
get_success_rate(s) ==
    LET total == s.success_count + s.failure_count
    IN  IF total = 0 THEN <<0, 1>> ELSE <<s.success_count, total>>

\* Mutant of get_error_summary: the error map itself is handed out, not a
\* dict made from it.
get_error_summary_Shared(s) == [ref |-> "errors"]

\* {error_type: len(errors) for error_type, errors in self._errors.items()}
get_error_summary(s) == [k \in DOMAIN s.errors |-> Len(s.errors[k])]

---------------------------------------------------------------------------
(* The aggregators as functions of the collector. A float result is the    *)
(* pair <<numerator, denominator>>, None the pair <<0, 0>>, an empty dict  *)
(* the empty function.                                                     *)

\* now - t <= 60
RpsWindow == 60

\* Optional[float] = None of a statistic.
NoneRate == <<0, 0>>

\* {}
EmptyDict == <<>>

\* sum(q) of a window.
SumSeq(q) ==
    LET RECURSIVE Sum(_)
        Sum(i) == IF i = 0 THEN 0 ELSE q[i] + Sum(i - 1)
    IN  Sum(Len(q))

\* min(q) of a non-empty list.
MinSeq(q) == CHOOSE x \in {q[i] : i \in 1..Len(q)} :
                 \A i \in 1..Len(q) : x <= q[i]

\* max(q) of a non-empty list.
MaxSeq(q) == CHOOSE x \in {q[i] : i \in 1..Len(q)} :
                 \A i \in 1..Len(q) : x >= q[i]

\* np.percentile(a, p): linear interpolation between the two samples next
\* to the rank (len(a) - 1) * p / 100 of the sorted array, in hundredths.
Percentile(a, p) ==
    LET sorted == SortSeq(a, LAMBDA x, y : x < y)
        rank == (Len(a) - 1) * p
        lo == rank \div 100
        hi == IF lo + 1 < Len(a) THEN lo + 1 ELSE lo
    IN  <<100 * sorted[lo + 1]
              + (rank % 100) * (sorted[hi + 1] - sorted[lo + 1]),
          100>>

\* The statistics get_recent_latencies computes of one non-empty window.
Stats(a) ==
    [avg |-> <<SumSeq(a), Len(a)>>,
     median |-> Percentile(a, 50),
     p90 |-> Percentile(a, 90),
     p95 |-> Percentile(a, 95),
     min |-> <<MinSeq(a), 1>>,
     max |-> <<MaxSeq(a), 1>>]

\* Mutant of StatsOrEmpty: an empty window gives statistics that are all
\* zero instead of an empty dict.
StatsOrEmpty_Zeros(window) ==
    IF window # <<>> THEN Stats(window)
    ELSE [avg |-> <<0, 1>>, median |-> <<0, 1>>, p90 |-> <<0, 1>>,
          p95 |-> <<0, 1>>, min |-> <<0, 1>>, max |-> <<0, 1>>]

\* if self._recent_ttfts: ttft_stats = {...}, and likewise for the ttcts
StatsOrEmpty(window) == IF window # <<>> THEN Stats(window) ELSE EmptyDict

\* (ttft_stats, ttct_stats)
get_recent_latencies(s) ==
    <<StatsOrEmpty(s.recent_ttfts), StatsOrEmpty(s.recent_ttcts)>>

\* dict.get(key): None for a key the dict has not.
DictGet(d, key) == IF key \in DOMAIN d THEN d[key] ELSE NoneRate

\* [t for t in self._request_times if now - t <= 60]
RecentRequests(s, now) ==
    SelectSeq(s.request_times, LAMBDA t : now - t <= RpsWindow)

\* get_current_rps at time now.
get_current_rps(s, now) ==
    IF Len(s.request_times) < 2 THEN <<0, 1>>
    ELSE LET recent_requests == RecentRequests(s, now)
         IN  IF recent_requests = <<>> THEN <<0, 1>>
             ELSE LET time_span == now - MinSeq(recent_requests)
                  IN  IF time_span <= 0 THEN <<0, 1>>
                      ELSE <<Len(recent_requests), time_span>>

\* Mutant of AvgTokensPerSecond: the tokens are divided by the number of
\* samples of the window instead of by their sum.
AvgTokensPerSecond_PerSample(s) ==
    IF Len(s.recent_ttcts) > 0 THEN <<s.total_tokens, Len(s.recent_ttcts)>>
    ELSE <<0, 1>>

\* total_ttct and avg_tokens_per_second of get_session_metrics.
AvgTokensPerSecond(s) ==
    LET total_ttct == IF s.recent_ttcts # <<>> THEN SumSeq(s.recent_ttcts)
                      ELSE 0
    IN  IF total_ttct > 0 THEN <<s.total_tokens, total_ttct>> ELSE <<0, 1>>

\* TestResult.success_rate of a TestResult r.
TestResult_success_rate(r) ==
    IF r.success_count + r.failure_count = 0 THEN <<0, 1>>
    ELSE <<r.success_count, r.success_count + r.failure_count>>

\* get_session_metrics at time now: the TestResult it constructs.
get_session_metrics(s, concurrent_users, now) ==
    LET ttft_stats == get_recent_latencies(s)[1]
        ttct_stats == get_recent_latencies(s)[2]
        error_summary == get_error_summary(s)
    IN  [timestamp |-> now,
         concurrent_users |-> concurrent_users,
         success_count |-> s.success_count,
         failure_count |-> s.failure_count,
         total_requests |-> s.total_request_count,
         timeout_count |-> s.timeout_count,
         avg_ttft |-> DictGet(ttft_stats, "avg"),
         avg_ttct |-> DictGet(ttct_stats, "avg"),
         p50_ttft |-> DictGet(ttft_stats, "median"),
         p90_ttft |-> DictGet(ttft_stats, "p90"),
         p95_ttft |-> DictGet(ttft_stats, "p95"),
         p50_ttct |-> DictGet(ttct_stats, "median"),
         p90_ttct |-> DictGet(ttct_stats, "p90"),
         p95_ttct |-> DictGet(ttct_stats, "p95"),
         total_tokens |-> s.total_tokens,
         avg_tokens_per_second |-> AvgTokensPerSecond(s),
         error_types |-> error_summary]

---------------------------------------------------------------------------
(* The sequential specifications: every operation is one step, as the lock *)
(* makes it. In Spec all calls are made at one time; SpecClock lets time   *)
(* pass; SpecStatus records requests with status codes around the limits   *)
(* of the success range.                                                   *)

\* The fields take the values of the collector value n.
Assign(n) ==
    /\ requests' = n.requests
    /\ stream_metrics' = n.stream_metrics
    /\ errors' = n.errors
    /\ request_times' = n.request_times
    /\ recent_ttfts' = n.recent_ttfts
    /\ recent_ttcts' = n.recent_ttcts
    /\ session_start_time' = n.session_start_time
    /\ success_count' = n.success_count
    /\ failure_count' = n.failure_count
    /\ timeout_count' = n.timeout_count
    /\ total_tokens' = n.total_tokens
    /\ sse_endpoints' = n.sse_endpoints
    /\ non_sse_endpoints' = n.non_sse_endpoints
    /\ sse_requests' = n.sse_requests
    /\ non_sse_requests' = n.non_sse_requests
    /\ sse_request_ids' = n.sse_request_ids
    /\ total_request_count' = n.total_request_count

\* The number of error records held in an error map.
NumErrors(errs) ==
    LET RECURSIVE Sum(_)
        Sum(K) == IF K = {} THEN 0
                  ELSE LET k == CHOOSE x \in K : TRUE
                       IN  Len(errs[k]) + Sum(K \ {k})
    IN  Sum(DOMAIN errs)

\* The record_* calls made since the last reset.
NumCalls(s) == Len(s.requests) + Len(s.stream_metrics) + NumErrors(s.errors)

\* The collector after n calls made on a fresh one, one per unit of time
\* from time 0 on and each with its own durations: n record_stream_completion
\* calls if stream, n non-streaming record_request calls if not.
WarmedUp(n, stream) ==
    LET endpoint == CHOOSE e \in Endpoints : TRUE
        method == CHOOSE m \in Methods : TRUE
        Made(s, i) ==
            IF stream
            THEN record_stream_completion(s, endpoint, 200, i, i, i, NoneId,
                                          i - 1)
            ELSE record_request(s, endpoint, method, 200, i, i, i, FALSE,
                                NoneId, i - 1)
        \* The calls from the i-th to the j-th made on s, in this order.
        RECURSIVE Run(_, _, _)
        Run(s, i, j) ==
            IF i > j THEN s
            ELSE IF i = j THEN Made(s, i)
            ELSE LET mid == (i + j) \div 2
                     half == Run(s, i, mid)
                 \* the first half is complete before the second begins
                 IN  IF NumCalls(half) = mid - i + 1 + NumCalls(s)
                     THEN Run(half, mid + 1, j)
                     ELSE half
    IN  Run(Fresh(0), 1, n)

\* The warmed-up collectors a run may start from: one call short of the
\* capacity of the latency windows, and of the request-time window.
WarmUps == {<<RecentTtctsMaxLen - 1, TRUE>>, <<RequestTimesMaxLen - 1, FALSE>>}

\* The number of calls a collector was warmed up with.
WarmUpCalls(s) ==
    IF NumCalls(s) >= RequestTimesMaxLen - 1 THEN RequestTimesMaxLen - 1
    ELSE IF NumCalls(s) >= RecentTtctsMaxLen - 1 THEN RecentTtctsMaxLen - 1
    ELSE 0

\* The record_* calls made in this run since the last reset.
CallsMade(s) == NumCalls(s) - WarmUpCalls(s)

\* last before any call.
NoCall == [op |-> "none"]

\* held before any call of get_session_metrics.
NoResult == [taken |-> FALSE]

\* results_dir before any call of save_results: no result directory.
NoDirs == <<>>

\* The worker threads that share the collector.
Workers == {"w1", "w2"}

\* The owner of a lock nobody holds.
NoWorker == "nobody"

\* threading.RLock() as constructed.
Unlocked == [owner |-> NoWorker, count |-> 0]

\* The frame of a thread that is in no call.
NoFrame == [op |-> "idle"]

\* No ClientPool has been constructed.
NoPool == [built |-> FALSE]

\* No LlmApiClient has been constructed.
NoClient == [built |-> FALSE]

\* self.current_test_process = None
NoProcess == [state |-> "None"]

\* The TestRunner after __init__ (test_runner.py 49-53).
NoTest ==
    [current_test_process |-> NoProcess, test_start_time |-> NoneF,
     test_end_time |-> NoneF]

\* The request ids a reset recorded in l dropped from the seen-set.
ClearedBy(l) == IF l.op = "reset" THEN l.before.sse_request_ids ELSE {}

Init ==
    /\ clock = 0
    /\ requests = <<>> /\ stream_metrics = <<>> /\ errors = <<>>
    /\ request_times = <<>> /\ recent_ttfts = <<>> /\ recent_ttcts = <<>>
    /\ session_start_time = 0
    /\ success_count = 0 /\ failure_count = 0 /\ timeout_count = 0
    /\ total_tokens = 0
    /\ sse_endpoints = {} /\ non_sse_endpoints = {}
    /\ sse_requests = <<>> /\ non_sse_requests = <<>>
    /\ sse_request_ids = {}
    /\ total_request_count = 0
    /\ last = NoCall
    /\ held = NoResult
    /\ disk = NoDirs
    /\ pool = NoPool
    /\ client = NoClient
    /\ runner = NoTest
    /\ lock = Unlocked
    /\ pc = [w \in Workers |-> "idle"]
    /\ frame = [w \in Workers |-> NoFrame]
    /\ log = <<>>

RecordRequest(Ids, Codes, Firsts) ==
    /\ CallsMade(Self) < MaxCalls
    /\ \E endpoint \in Endpoints, method \in Methods, status_code \in Codes,
          ttft \in Firsts, ttct \in Ttcts, content_length \in ContentLengths,
          is_stream \in BOOLEAN, request_id \in Ids :
          /\ Assign(record_request(Self, endpoint, method, status_code, ttft,
                                   ttct, content_length, is_stream, request_id,
                                   clock))
          /\ last' = [op |-> "record_request", status_code |-> status_code,
                      is_stream |-> is_stream, ttft |-> ttft,
                      request_id |-> EffectiveId(request_id, endpoint, clock),
                      passed_request_id |-> request_id,
                      before |-> Self]
    /\ UNCHANGED <<clock, threads, held, disk, others>>

RecordStreamCompletion(Ids, Codes, Totals) ==
    /\ CallsMade(Self) < MaxCalls
    /\ \E endpoint \in Endpoints, status_code \in Codes, ttft \in Ttfts,
          ttct \in Totals, token_count \in TokenCounts, request_id \in Ids :
          /\ Assign(record_stream_completion(Self, endpoint, status_code, ttft,
                                             ttct, token_count, request_id,
                                             clock))
          /\ last' = [op |-> "record_stream_completion",
                      status_code |-> status_code, ttft |-> ttft, ttct |-> ttct,
                      token_count |-> token_count,
                      request_id |-> EffectiveId(request_id, endpoint, clock),
                      passed_request_id |-> request_id,
                      cleared |-> ClearedBy(last),
                      before |-> Self]
    /\ UNCHANGED <<clock, threads, held, disk, others>>

RecordError(Types) ==
    /\ CallsMade(Self) < MaxCalls
    /\ \E error_type \in Types, error_message \in Messages,
          endpoint \in Endpoints :
          /\ Assign(record_error(Self, error_type, error_message, endpoint,
                                 clock))
          /\ last' = [op |-> "record_error", error_type |-> error_type,
                      before |-> Self]
    /\ UNCHANGED <<clock, threads, held, disk, others>>

Reset ==
    /\ Assign(reset(Self, clock))
    /\ last' = [op |-> "reset", timestamp |-> clock, before |-> Self]
    /\ UNCHANGED <<clock, threads, held, disk, others>>

\* Time passes between two calls.
Tick ==
    /\ clock < MaxClock
    /\ clock' = clock + 1
    /\ UNCHANGED <<fields, threads, last, held, disk, others>>

Next ==
    \/ RecordRequest(RequestIds, StatusCodes, {NoneF})
    \/ RecordStreamCompletion(RequestIds, StatusCodes, Ttcts)
    \/ RecordError(ErrorTypes)
    \/ Reset

Spec == Init /\ [][Next]_vars

\* Status codes on both sides of the limits of the success range.
BoundaryCodes == {199, 200, 299, 300, 500}

NextStatus ==
    \/ RecordRequest({"r1"}, BoundaryCodes, {NoneF})
    \/ Reset

SpecStatus == Init /\ [][NextStatus]_vars

\* The operations with time passing between the calls, and with calls that
\* pass no request_id.
NextClock ==
    \/ RecordRequest({"r1"}, {200}, Ttfts)
    \/ RecordStreamCompletion({"r1", NoneId}, StatusCodes, Ttcts)
    \/ RecordError({"timeout"})
    \/ Reset
    \/ Tick

SpecClock == Init /\ [][NextClock]_vars

\* The fields have the values of the collector value n.
Holds(n) ==
    /\ requests = n.requests
    /\ stream_metrics = n.stream_metrics
    /\ errors = n.errors
    /\ request_times = n.request_times
    /\ recent_ttfts = n.recent_ttfts
    /\ recent_ttcts = n.recent_ttcts
    /\ session_start_time = n.session_start_time
    /\ success_count = n.success_count
    /\ failure_count = n.failure_count
    /\ timeout_count = n.timeout_count
    /\ total_tokens = n.total_tokens
    /\ sse_endpoints = n.sse_endpoints
    /\ non_sse_endpoints = n.non_sse_endpoints
    /\ sse_requests = n.sse_requests
    /\ non_sse_requests = n.non_sse_requests
    /\ sse_request_ids = n.sse_request_ids
    /\ total_request_count = n.total_request_count

\* A collector that has been recording for a while: its recent windows are
\* one sample short of their capacity.
InitWindow ==
    /\ \E u \in WarmUps : Holds(WarmedUp(u[1], u[2])) /\ clock = u[1]
    /\ last = NoCall
    /\ held = NoResult
    /\ disk = NoDirs
    /\ pool = NoPool
    /\ client = NoClient
    /\ runner = NoTest
    /\ lock = Unlocked
    /\ pc = [w \in Workers |-> "idle"]
    /\ frame = [w \in Workers |-> NoFrame]
    /\ log = <<>>

NextWindow ==
    \/ RecordRequest({NoneId}, {200}, {NoneF} \cup Ttfts)
    \/ RecordStreamCompletion({"r1"}, {200}, Ttcts)
    \/ Reset

SpecWindow == InitWindow /\ [][NextWindow]_vars

\* Mutant of ErrorsRead: the error types are looked up by key, and a
\* defaultdict enters an empty list for every key looked up and not found.
ErrorsRead_ByKey(errs) ==
    [k \in DOMAIN errs \cup ErrorTypes |->
        IF k \in DOMAIN errs THEN errs[k] ELSE <<>>]

\* self._errors after "for error_type, errors in self._errors.items()":
\* items() looks no key up, so the defaultdict enters none.
ErrorsRead(errs) == errs

\* The values get_session_metrics may be called with.
ConcurrentUsers == {5}

\* A field of a TestResult that is an object of the collector itself, not
\* a copy of it, names the field of the collector.
IsRef(v) == "ref" \in DOMAIN v

\* What its holder reads in the TestResult r while the collector is s.
View(r, s) ==
    [r EXCEPT !.error_types = IF IsRef(@) THEN s[@.ref] ELSE @]

GetSuccessRate ==
    /\ last' = [op |-> "get_success_rate", result |-> get_success_rate(Self),
                before |-> Self]
    /\ UNCHANGED <<fields, clock, threads, held, disk, others>>

GetCurrentRps ==
    /\ last' = [op |-> "get_current_rps",
                result |-> get_current_rps(Self, clock), now |-> clock,
                before |-> Self]
    /\ UNCHANGED <<fields, clock, threads, held, disk, others>>

GetRecentLatencies ==
    /\ last' = [op |-> "get_recent_latencies",
                result |-> get_recent_latencies(Self), before |-> Self]
    /\ UNCHANGED <<fields, clock, threads, held, disk, others>>

GetErrorSummary ==
    /\ Assign([Self EXCEPT !.errors = ErrorsRead(@)])
    /\ last' = [op |-> "get_error_summary",
                result |-> get_error_summary(Self), before |-> Self]
    /\ UNCHANGED <<clock, threads, held, disk, others>>

GetSessionMetrics ==
    \E concurrent_users \in ConcurrentUsers :
        /\ Assign([Self EXCEPT !.errors = ErrorsRead(@)])
        /\ last' = [op |-> "get_session_metrics",
                    result |-> get_session_metrics(Self, concurrent_users,
                                                   clock),
                    before |-> Self]
        /\ UNCHANGED <<clock, threads, held, disk, others>>

\* Durations of a stream that are no positive number, and 1.
AnyTtcts == {-1, 0, 1}

\* The recording operations and the aggregators, all called at one time.
NextAggregate ==
    \/ RecordRequest({"r1"}, StatusCodes, {NoneF})
    \/ RecordStreamCompletion({"r1"}, {200}, AnyTtcts)
    \/ RecordError({"timeout"})
    \/ Reset
    \/ GetSuccessRate
    \/ GetCurrentRps
    \/ GetRecentLatencies
    \/ GetErrorSummary
    \/ GetSessionMetrics

SpecAggregate == Init /\ [][NextAggregate]_vars

\* The times at which the collector is called: the first moments of the
\* session, and the same moments 60 seconds later.
Times == (0..MaxClock) \cup {RpsWindow + t : t \in 0..MaxClock}

\* Time passes between two calls, up to one of the times of the calls.
Elapse ==
    \E t \in Times :
        /\ t > clock
        /\ clock' = t
        /\ UNCHANGED <<fields, threads, last, held, disk, others>>

\* Requests recorded at different times, and the request rate.
NextRps ==
    \/ RecordRequest({"r1"}, {200}, {NoneF})
    \/ Reset
    \/ GetCurrentRps
    \/ Elapse

SpecRps == Init /\ [][NextRps]_vars

\* A caller calls get_session_metrics and keeps the TestResult.
KeepSessionMetrics ==
    \E concurrent_users \in ConcurrentUsers :
        LET result == get_session_metrics(Self, concurrent_users, clock)
        IN  /\ Assign([Self EXCEPT !.errors = ErrorsRead(@)])
            /\ last' = [op |-> "get_session_metrics", result |-> result,
                        before |-> Self]
            /\ held' = [taken |-> TRUE, result |-> result,
                        view |-> View(result, Self)]
            /\ UNCHANGED <<clock, threads, disk, others>>

\* The recording operations called while a TestResult is kept.
NextSnapshot ==
    \/ RecordRequest({"r1"}, {200}, {NoneF})
    \/ RecordStreamCompletion({"r1"}, {200}, Ttcts)
    \/ RecordError(ErrorTypes)
    \/ Reset
    \/ KeepSessionMetrics

SpecSnapshot == Init /\ [][NextSnapshot]_vars

---------------------------------------------------------------------------
(* The threaded specification: each worker thread executes the body of its *)
(* call statement by statement (labels are the source lines), an x += 1 as *)
(* a load and a store, between taking and giving back self._lock.          *)

\* The number of mutating calls the workers make.
MaxThreadCalls == 2

\* The result of one statement: the collector, the frame, the next label.
Go(s, f, label) == [s |-> s, f |-> f, pc |-> label]

\* The statements of record_request inside "with self._lock".
StmtRecordRequest(s, f, label) ==
    CASE label = "rr116" ->
           Go([s EXCEPT !.requests = Append(@, f.data)], f, "rr117")
      [] label = "rr117" ->
           Go([s EXCEPT !.request_times =
                   DequeAppend(@, f.timestamp, RequestTimesMaxLen)],
              f, "rr118")
      [] label = "rr118" ->
           Go(s, [f EXCEPT !.tmp = s.total_request_count], "rr118_store")
      [] label = "rr118_store" ->
           Go([s EXCEPT !.total_request_count = f.tmp + 1], f, "rr120")
      [] label = "rr120" ->
           Go([s EXCEPT !.recent_ttfts = PushTtft(@, f.ttft)], f, "rr123")
      [] label = "rr123" ->
           Go([s EXCEPT !.recent_ttcts =
                   DequeAppend(@, f.ttct, RecentTtctsMaxLen)],
              f, IF f.is_stream THEN "rr127" ELSE "rr131")
      [] label = "rr127" ->
           Go([s EXCEPT !.sse_endpoints = @ \cup {f.endpoint}], f, "rr128")
      [] label = "rr128" ->
           Go([s EXCEPT !.sse_requests = Append(@, f.data)], f, "rr_exit")
      [] label = "rr131" ->
           Go([s EXCEPT !.non_sse_endpoints = @ \cup {f.endpoint}], f, "rr132")
      [] label = "rr132" ->
           Go([s EXCEPT !.non_sse_requests = Append(@, f.data)], f,
              IF IsSuccess(f.status_code) THEN "rr135" ELSE "rr137")
      [] label = "rr135" ->
           Go(s, [f EXCEPT !.tmp = s.success_count], "rr135_store")
      [] label = "rr135_store" ->
           Go([s EXCEPT !.success_count = f.tmp + 1], f, "rr_exit")
      [] label = "rr137" ->
           Go(s, [f EXCEPT !.tmp = s.failure_count], "rr137_store")
      [] label = "rr137_store" ->
           Go([s EXCEPT !.failure_count = f.tmp + 1], f, "rr_exit")

RecordRequestBody ==
    {"rr116", "rr117", "rr118", "rr118_store", "rr120", "rr123", "rr127",
     "rr128", "rr131", "rr132", "rr135", "rr135_store", "rr137",
     "rr137_store"}

\* The statements of record_stream_completion inside "with self._lock".
StmtRecordStreamCompletion(s, f, label) ==
    CASE label = "sc179" ->
           Go([s EXCEPT !.stream_metrics = Append(@, f.data)], f, "sc180")
      [] label = "sc180" ->
           Go([s EXCEPT !.recent_ttfts =
                   DequeAppend(@, f.ttft, RecentTtftsMaxLen)], f, "sc181")
      [] label = "sc181" ->
           Go([s EXCEPT !.recent_ttcts =
                   DequeAppend(@, f.ttct, RecentTtctsMaxLen)], f, "sc182")
      [] label = "sc182" ->
           Go(s, [f EXCEPT !.tmp = s.total_tokens], "sc182_store")
      [] label = "sc182_store" ->
           Go([s EXCEPT !.total_tokens = f.tmp + f.token_count], f, "sc185")
      [] label = "sc185" ->
           Go([s EXCEPT !.sse_endpoints = @ \cup {f.endpoint}], f, "sc186")
      [] label = "sc186" ->
           Go([s EXCEPT !.sse_requests = Append(@, f.data)], f, "sc189")
      [] label = "sc189" ->
           Go(s, f, IF NotYetCounted(s, f.data.request_id)
                    THEN "sc190" ELSE "sc_exit")
      [] label = "sc190" ->
           Go([s EXCEPT !.sse_request_ids = @ \cup {f.data.request_id}], f,
              IF IsSuccess(f.status_code) THEN "sc194" ELSE "sc196")
      [] label = "sc194" ->
           Go(s, [f EXCEPT !.tmp = s.success_count], "sc194_store")
      [] label = "sc194_store" ->
           Go([s EXCEPT !.success_count = f.tmp + 1], f, "sc_exit")
      [] label = "sc196" ->
           Go(s, [f EXCEPT !.tmp = s.failure_count], "sc196_store")
      [] label = "sc196_store" ->
           Go([s EXCEPT !.failure_count = f.tmp + 1], f, "sc_exit")

RecordStreamCompletionBody ==
    {"sc179", "sc180", "sc181", "sc182", "sc182_store", "sc185", "sc186",
     "sc189", "sc190", "sc194", "sc194_store", "sc196", "sc196_store"}

\* The statements of record_error inside "with self._lock"; now is the
\* value of time.time() at line 215.
StmtRecordError(s, f, label, now) ==
    CASE label = "er211" ->
           Go(s, [f EXCEPT !.tmp = s.timeout_count], "er211_store")
      [] label = "er211_store" ->
           Go([s EXCEPT !.timeout_count = f.tmp + 1], f, "er213")
      [] label = "er213" ->
           Go(s, [f EXCEPT !.tmp = s.failure_count], "er213_store")
      [] label = "er213_store" ->
           Go([s EXCEPT !.failure_count = f.tmp + 1], f, "er214")
      [] label = "er214" ->
           Go(s, [f EXCEPT !.timestamp = now], "er219")
      [] label = "er219" ->
           Go([s EXCEPT !.errors =
                   ErrorsAppend(@, f.error_type,
                                [timestamp |-> f.timestamp,
                                 message |-> f.error_message,
                                 endpoint |-> f.endpoint])],
              f, "er_exit")

RecordErrorBody ==
    {"er211", "er211_store", "er213", "er213_store", "er214", "er219"}

\* The assignments of reset in their order: label, field, value.
ResetOrder ==
    << <<"rs921", "requests", <<>> >>,
       <<"rs922", "stream_metrics", <<>> >>,
       <<"rs923", "errors", <<>> >>,
       <<"rs924", "request_times", <<>> >>,
       <<"rs925", "recent_ttfts", <<>> >>,
       <<"rs926", "recent_ttcts", <<>> >>,
       <<"rs927", "session_start_time", 0>>,
       <<"rs928", "success_count", 0>>,
       <<"rs929", "failure_count", 0>>,
       <<"rs930", "timeout_count", 0>>,
       <<"rs931", "total_tokens", 0>>,
       <<"rs932", "sse_endpoints", {}>>,
       <<"rs933", "non_sse_endpoints", {}>>,
       <<"rs934", "sse_requests", <<>> >>,
       <<"rs935", "non_sse_requests", <<>> >>,
       <<"rs936", "sse_request_ids", {}>>,
       <<"rs937", "total_request_count", 0>> >>

ResetBody == {ResetOrder[i][1] : i \in 1..Len(ResetOrder)}

\* The statements of reset inside "with self._lock"; now is the value of
\* time.time() at line 927.
StmtReset(s, f, label, now) ==
    LET i == CHOOSE k \in 1..Len(ResetOrder) : ResetOrder[k][1] = label
        field == ResetOrder[i][2]
        value == IF field = "session_start_time" THEN now ELSE ResetOrder[i][3]
    IN  Go([s EXCEPT ![field] = value], f,
           IF i = Len(ResetOrder) THEN "rs_exit" ELSE ResetOrder[i + 1][1])

\* The statements of get_session_metrics and of the two aggregators it
\* calls, each a read of the collector into the frame.
StmtGetSessionMetrics(s, f, label) ==
    CASE label = "gl270" ->
           Go(s, [f EXCEPT !.ttft_array = s.recent_ttfts], "gl281")
      [] label = "gl281" ->
           Go(s, [f EXCEPT !.ttct_array = s.recent_ttcts], "gl292")
      [] label = "ge302" ->
           Go(s, [f EXCEPT !.error_types = get_error_summary(s)], "ge302_exit")
      [] label = "gm319" ->
           Go(s, [f EXCEPT !.total_ttct = SumSeq(s.recent_ttcts)], "gm320")
      [] label = "gm320" ->
           Go(s, [f EXCEPT !.avg_tokens_per_second =
                      IF f.total_ttct > 0
                      THEN <<s.total_tokens, f.total_ttct>> ELSE <<0, 1>>],
              "gm325")
      [] label = "gm325" ->
           Go(s, [f EXCEPT !.success_count = s.success_count], "gm326")
      [] label = "gm326" ->
           Go(s, [f EXCEPT !.failure_count = s.failure_count], "gm327")
      [] label = "gm327" ->
           Go(s, [f EXCEPT !.total_requests = s.total_request_count], "gm328")
      [] label = "gm328" ->
           Go(s, [f EXCEPT !.timeout_count = s.timeout_count], "gm337")
      [] label = "gm337" ->
           Go(s, [f EXCEPT !.total_tokens = s.total_tokens], "gm_exit")

GetSessionMetricsBody ==
    {"gl270", "gl281", "ge302", "gm319", "gm320", "gm325", "gm326", "gm327",
     "gm328", "gm337"}

\* Mutant of LockFree: the lock does not exclude anybody.
LockFree_Always(w) == TRUE

\* Mutant of LockFree: a lock that is not re-entrant, which blocks its
\* owner as well.
LockFree_NotReentrant(w) == lock.owner = NoWorker

\* RLock.acquire does not block w: the lock is free or w holds it.
LockFree(w) == lock.owner \in {NoWorker, w}

\* RLock.acquire by w.
Acquired(w) == [owner |-> w, count |-> lock.count + 1]

\* RLock.release.
Released ==
    IF lock.count <= 1 THEN Unlocked ELSE [lock EXCEPT !.count = @ - 1]

\* Another worker is in a call while w takes the lock.
Contended(w) == \E v \in Workers \ {w} : pc[v] # "idle"

\* A worker calls an operation of the collector and arrives at the
\* "with self._lock" that opens it (lines 97, 159, 209, 920, 314); which
\* operation and which arguments shows when it gets the lock.
Call(w) ==
    /\ pc[w] = "idle"
    /\ pc' = [pc EXCEPT ![w] = "with_lock"]
    /\ UNCHANGED <<fields, clock, lock, frame, log, last, held, disk, others>>

\* record_request, lines 97-114: the lock, the timestamp, request_data.
EnterRecordRequest(w) ==
    /\ pc[w] = "with_lock"
    /\ Len(log) < MaxThreadCalls
    /\ LockFree(w)
    /\ lock' = Acquired(w)
    /\ \E endpoint \in Endpoints, method \in Methods,
          status_code \in StatusCodes, ttft \in {NoneF}, ttct \in Ttcts,
          content_length \in ContentLengths, is_stream \in BOOLEAN,
          request_id \in {"r1"} :
          LET c == [op |-> "record_request", endpoint |-> endpoint,
                    method |-> method, status_code |-> status_code,
                    ttft |-> ttft, ttct |-> ttct,
                    content_length |-> content_length,
                    is_stream |-> is_stream, request_id |-> request_id,
                    timestamp |-> clock,
                    contended |-> Contended(w)]
              request_data ==
                   [timestamp |-> clock, endpoint |-> endpoint,
                    method |-> method, status_code |-> status_code,
                    ttft |-> ttft, ttct |-> ttct,
                    content_length |-> content_length,
                    is_stream |-> is_stream,
                    request_id |-> EffectiveId(request_id, endpoint, clock)]
          IN  /\ frame' = [frame EXCEPT ![w] =
                              [op |-> "record_request", endpoint |-> endpoint,
                               status_code |-> status_code, ttft |-> ttft,
                               ttct |-> ttct, is_stream |-> is_stream,
                               timestamp |-> clock, data |-> request_data,
                               tmp |-> 0]]
              /\ log' = Append(log, c)
    /\ pc' = [pc EXCEPT ![w] = "rr116"]
    /\ UNCHANGED <<fields, clock, last, held, disk, others>>

\* record_stream_completion, lines 159-177: the lock, the timestamp,
\* stream_data.
EnterRecordStreamCompletion(w) ==
    /\ pc[w] = "with_lock"
    /\ Len(log) < MaxThreadCalls
    /\ LockFree(w)
    /\ lock' = Acquired(w)
    /\ \E endpoint \in Endpoints, status_code \in StatusCodes,
          ttft \in Ttfts, ttct \in Ttcts, token_count \in TokenCounts,
          request_id \in {"r1"} :
          LET c == [op |-> "record_stream_completion", endpoint |-> endpoint,
                    status_code |-> status_code, ttft |-> ttft, ttct |-> ttct,
                    token_count |-> token_count, request_id |-> request_id,
                    timestamp |-> clock,
                    contended |-> Contended(w)]
              stream_data ==
                   [timestamp |-> clock, endpoint |-> endpoint,
                    status_code |-> status_code, ttft |-> ttft, ttct |-> ttct,
                    token_count |-> token_count,
                    tokens_per_second |-> TokensPerSecond(token_count, ttct),
                    request_id |-> EffectiveId(request_id, endpoint, clock)]
          IN  /\ frame' = [frame EXCEPT ![w] =
                              [op |-> "record_stream_completion",
                               endpoint |-> endpoint,
                               status_code |-> status_code, ttft |-> ttft,
                               ttct |-> ttct, token_count |-> token_count,
                               data |-> stream_data, tmp |-> 0]]
              /\ log' = Append(log, c)
    /\ pc' = [pc EXCEPT ![w] = "sc179"]
    /\ UNCHANGED <<fields, clock, last, held, disk, others>>

\* record_error, lines 209-210: the lock and the test for "timeout".
EnterRecordError(w) ==
    /\ pc[w] = "with_lock"
    /\ Len(log) < MaxThreadCalls
    /\ LockFree(w)
    /\ lock' = Acquired(w)
    /\ \E error_type \in ErrorTypes, error_message \in Messages,
          endpoint \in Endpoints :
          /\ frame' = [frame EXCEPT ![w] =
                          [op |-> "record_error", error_type |-> error_type,
                           error_message |-> error_message,
                           endpoint |-> endpoint, timestamp |-> 0, tmp |-> 0]]
          /\ log' = Append(log, [op |-> "record_error",
                                 error_type |-> error_type,
                                 error_message |-> error_message,
                                 endpoint |-> endpoint, timestamp |-> clock,
                                 contended |-> Contended(w)])
          /\ pc' = [pc EXCEPT ![w] =
                       IF error_type = "timeout" THEN "er211" ELSE "er213"]
    /\ UNCHANGED <<fields, clock, last, held, disk, others>>

\* reset, line 920: the lock.
EnterReset(w) ==
    /\ pc[w] = "with_lock"
    /\ Len(log) < MaxThreadCalls
    /\ LockFree(w)
    /\ lock' = Acquired(w)
    /\ frame' = [frame EXCEPT ![w] = [op |-> "reset"]]
    /\ log' = Append(log, [op |-> "reset", timestamp |-> clock,
                    contended |-> Contended(w)])
    /\ pc' = [pc EXCEPT ![w] = "rs921"]
    /\ UNCHANGED <<fields, clock, last, held, disk, others>>

\* get_session_metrics, line 314: the lock.
EnterGetSessionMetrics(w) ==
    /\ pc[w] = "with_lock"
    /\ LockFree(w)
    /\ lock' = Acquired(w)
    /\ frame' = [frame EXCEPT ![w] =
                    [op |-> "get_session_metrics", ttft_array |-> <<>>,
                     ttct_array |-> <<>>, error_types |-> <<>>,
                     total_ttct |-> 0, avg_tokens_per_second |-> <<0, 1>>,
                     success_count |-> 0, failure_count |-> 0,
                     total_requests |-> 0, timeout_count |-> 0,
                     total_tokens |-> 0]]
    /\ pc' = [pc EXCEPT ![w] = "gm315"]
    /\ UNCHANGED <<fields, clock, log, last, held, disk, others>>

\* The result r of a statement of w takes effect.
Effect(w, r) ==
    /\ Assign(r.s)
    /\ frame' = [frame EXCEPT ![w] = r.f]
    /\ pc' = [pc EXCEPT ![w] = r.pc]
    /\ UNCHANGED <<clock, lock, log, last, held, disk, others>>

StepRecordRequest(w) ==
    /\ pc[w] \in RecordRequestBody
    /\ Effect(w, StmtRecordRequest(Self, frame[w], pc[w]))

StepRecordStreamCompletion(w) ==
    /\ pc[w] \in RecordStreamCompletionBody
    /\ Effect(w, StmtRecordStreamCompletion(Self, frame[w], pc[w]))

StepRecordError(w) ==
    /\ pc[w] \in RecordErrorBody
    /\ Effect(w, StmtRecordError(Self, frame[w], pc[w], clock))

StepReset(w) ==
    /\ pc[w] \in ResetBody
    /\ Effect(w, StmtReset(Self, frame[w], pc[w], clock))

StepGetSessionMetrics(w) ==
    /\ pc[w] \in GetSessionMetricsBody
    /\ Effect(w, StmtGetSessionMetrics(Self, frame[w], pc[w]))

\* get_session_metrics calls get_recent_latencies (line 315) and
\* get_error_summary (line 316), which take the lock again (266, 301).
EnterNested(w) ==
    /\ pc[w] \in {"gm315", "gm316"}
    /\ LockFree(w)
    /\ lock' = Acquired(w)
    /\ pc' = [pc EXCEPT ![w] = IF pc[w] = "gm315" THEN "gl270" ELSE "ge302"]
    /\ UNCHANGED <<fields, clock, frame, log, last, held, disk, others>>

\* The return of get_recent_latencies (292) and of get_error_summary (302).
LeaveNested(w) ==
    /\ pc[w] \in {"gl292", "ge302_exit"}
    /\ lock' = Released
    /\ pc' = [pc EXCEPT ![w] = IF pc[w] = "gl292" THEN "gm316" ELSE "gm319"]
    /\ UNCHANGED <<fields, clock, frame, log, last, held, disk, others>>

\* w is at the return of a get_session_metrics that save_results called
\* (line 377): it returns into save_results, not to the caller of w.
ReturnsToSaveResults(w) ==
    pc[w] = "gm_exit" /\ frame[w].op = "save_results"

\* The end of the "with self._lock" block of an operation, and its return.
Leave(w) ==
    /\ pc[w] \in {"rr_exit", "sc_exit", "er_exit", "rs_exit", "gm_exit",
                  "sr_exit"}
    /\ ~ReturnsToSaveResults(w)
    /\ lock' = Released
    /\ pc' = [pc EXCEPT ![w] = "idle"]
    /\ frame' = [frame EXCEPT ![w] = NoFrame]
    /\ UNCHANGED <<fields, clock, log, last, held, disk, others>>

NextThreads ==
    \E w \in Workers :
        \/ Call(w)
        \/ EnterRecordRequest(w)
        \/ EnterRecordStreamCompletion(w)
        \/ EnterRecordError(w)
        \/ EnterReset(w)
        \/ EnterGetSessionMetrics(w)
        \/ StepRecordRequest(w)
        \/ StepRecordStreamCompletion(w)
        \/ StepRecordError(w)
        \/ StepReset(w)
        \/ StepGetSessionMetrics(w)
        \/ EnterNested(w)
        \/ LeaveNested(w)
        \/ Leave(w)

SpecThreads == Init /\ [][NextThreads]_vars

---------------------------------------------------------------------------
(* save_results, statement by statement: the export a thread makes while   *)
(* other threads record. The files of a result directory are a function    *)
(* from file names to contents: a table is its column names and its rows,  *)
(* a JSON document the value it was dumped from.                           *)

\* The names save_results is called with.
TestNames == {"basic_test"}

\* self.results_dir / f"{test_name}_{concurrent_users}users_{timestamp}",
\* timestamp being the time in whole seconds.
ResultDir(test_name, concurrent_users, timestamp) ==
    <<test_name, concurrent_users, timestamp>>

\* result_dir.mkdir(parents=True, exist_ok=True): a directory that exists
\* keeps its files.
Mkdir(d, name) ==
    IF name \in DOMAIN d THEN d
    ELSE [n \in DOMAIN d \cup {name} |-> IF n = name THEN EmptyDict ELSE d[n]]

\* A file of the directory name created, or written over.
WriteFile(d, name, file, content) ==
    [d EXCEPT ![name] = [x \in DOMAIN d[name] \cup {file} |->
                            IF x = file THEN content ELSE d[name][x]]]

\* The keys of request_data (lines 104-114) and of stream_data (168-177).
RequestColumns ==
    <<"timestamp", "endpoint", "method", "status_code", "ttft", "ttct",
      "content_length", "is_stream", "request_id">>

StreamColumns ==
    <<"timestamp", "endpoint", "status_code", "ttft", "ttct", "token_count",
      "tokens_per_second", "request_id">>

\* pd.DataFrame(records).to_csv(path, index=False): a header line and one
\* line per record, the cells of a line in the order of the header.
ToCsv(records, columns) ==
    [header |-> columns,
     rows |-> [i \in 1..Len(records) |->
                  [j \in 1..Len(columns) |-> records[i][columns[j]]]]]

\* Mutant of Truthy: an empty collection passes the test as well.
Truthy_Always(collection) == TRUE

\* if self._requests: / if self._stream_metrics: / if self._errors:
Truthy(collection) == collection # <<>>

\* The TestResult get_session_metrics constructs (lines 322-340) from the
\* values a thread has copied into its frame.
TestResultIn(f, now) ==
    LET ttft_stats == StatsOrEmpty(f.ttft_array)
        ttct_stats == StatsOrEmpty(f.ttct_array)
    IN  [timestamp |-> now,
         concurrent_users |-> f.concurrent_users,
         success_count |-> f.success_count,
         failure_count |-> f.failure_count,
         total_requests |-> f.total_requests,
         timeout_count |-> f.timeout_count,
         avg_ttft |-> DictGet(ttft_stats, "avg"),
         avg_ttct |-> DictGet(ttct_stats, "avg"),
         p50_ttft |-> DictGet(ttft_stats, "median"),
         p90_ttft |-> DictGet(ttft_stats, "p90"),
         p95_ttft |-> DictGet(ttft_stats, "p95"),
         p50_ttct |-> DictGet(ttct_stats, "median"),
         p90_ttct |-> DictGet(ttct_stats, "p90"),
         p95_ttct |-> DictGet(ttct_stats, "p95"),
         total_tokens |-> f.total_tokens,
         avg_tokens_per_second |-> f.avg_tokens_per_second,
         error_types |-> f.error_types]

\* The result of one statement of save_results: the disk, the frame, the
\* next label.
Saved(d, f, label) == [d |-> d, f |-> f, pc |-> label]

\* A file the export of frame f writes into its result directory.
Written(d, f, file, content) ==
    WriteFile(d, f.result_dir, file, content)

\* The statements of save_results inside "with self._lock" but the call of
\* get_session_metrics (line 377); now is the value of time.strftime at
\* line 354. f.wrote is history: the files this call has written.
StmtSaveResults(d, s, f, label, now) ==
    CASE label = "sr354" ->
           LET name == ResultDir(f.test_name, f.concurrent_users, now)
           IN  Saved(Mkdir(d, name), [f EXCEPT !.result_dir = name], "sr359")
      [] label = "sr359" ->
           IF Truthy(s.requests)
           THEN Saved(Written(d, f, "requests.csv",
                              ToCsv(s.requests, RequestColumns)),
                      [f EXCEPT !.wrote = @ \cup {"requests.csv"}], "sr365")
           ELSE Saved(d, f, "sr365")
      [] label = "sr365" ->
           IF Truthy(s.stream_metrics)
           THEN Saved(Written(d, f, "stream_metrics.csv",
                              ToCsv(s.stream_metrics, StreamColumns)),
                      [f EXCEPT !.wrote = @ \cup {"stream_metrics.csv"}],
                      "sr371")
           ELSE Saved(d, f, "sr371")
      [] label = "sr371" ->
           IF Truthy(s.errors)
           THEN Saved(Written(d, f, "errors.json", s.errors),
                      [f EXCEPT !.wrote = @ \cup {"errors.json"}], "sr377")
           ELSE Saved(d, f, "sr377")
      [] label = "sr378" ->
           Saved(Written(d, f, "summary.json", f.summary),
                 [f EXCEPT !.wrote = @ \cup {"summary.json"}], "sr384")
      [] label = "sr384" ->
           Saved(Written(d, f, "performance_report.html",
                         [total_requests |-> s.total_request_count]),
                 [f EXCEPT !.wrote = @ \cup {"performance_report.html"}],
                 "sr_exit")

SaveResultsBody == {"sr354", "sr359", "sr365", "sr371", "sr378", "sr384"}

\* save_results, line 353: the lock.
EnterSaveResults(w) ==
    /\ pc[w] = "with_lock"
    /\ Len(log) < MaxThreadCalls
    /\ LockFree(w)
    /\ lock' = Acquired(w)
    /\ \E test_name \in TestNames, concurrent_users \in ConcurrentUsers :
          /\ frame' = [frame EXCEPT ![w] =
                          [op |-> "save_results", test_name |-> test_name,
                           concurrent_users |-> concurrent_users,
                           result_dir |-> <<>>, wrote |-> {},
                           summary |-> NoResult,
                           ttft_array |-> <<>>, ttct_array |-> <<>>,
                           error_types |-> <<>>, total_ttct |-> 0,
                           avg_tokens_per_second |-> <<0, 1>>,
                           success_count |-> 0, failure_count |-> 0,
                           total_requests |-> 0, timeout_count |-> 0,
                           total_tokens |-> 0]]
          /\ log' = Append(log, [op |-> "save_results",
                                 test_name |-> test_name,
                                 concurrent_users |-> concurrent_users,
                                 timestamp |-> clock,
                                 contended |-> Contended(w)])
    /\ pc' = [pc EXCEPT ![w] = "sr354"]
    /\ UNCHANGED <<fields, clock, last, held, disk, others>>

StepSaveResults(w) ==
    /\ pc[w] \in SaveResultsBody
    /\ LET r == StmtSaveResults(disk, Self, frame[w], pc[w], clock)
       IN  /\ disk' = r.d
           /\ frame' = [frame EXCEPT ![w] = r.f]
           /\ pc' = [pc EXCEPT ![w] = r.pc]
    /\ UNCHANGED <<fields, clock, lock, log, last, held, others>>

\* save_results calls get_session_metrics (line 377), which takes the lock
\* again (line 314).
EnterNestedSessionMetrics(w) ==
    /\ pc[w] = "sr377"
    /\ LockFree(w)
    /\ lock' = Acquired(w)
    /\ pc' = [pc EXCEPT ![w] = "gm315"]
    /\ UNCHANGED <<fields, clock, frame, log, last, held, disk, others>>

\* The return of that get_session_metrics (line 340): the TestResult is
\* summary.
LeaveNestedSessionMetrics(w) ==
    /\ ReturnsToSaveResults(w)
    /\ lock' = Released
    /\ frame' = [frame EXCEPT ![w].summary = TestResultIn(frame[w], clock)]
    /\ pc' = [pc EXCEPT ![w] = "sr378"]
    /\ UNCHANGED <<fields, clock, log, last, held, disk, others>>

\* Threads that record, reset and export.
NextExport ==
    \E w \in Workers :
        \/ Call(w)
        \/ EnterRecordRequest(w)
        \/ EnterRecordStreamCompletion(w)
        \/ EnterRecordError(w)
        \/ EnterReset(w)
        \/ EnterSaveResults(w)
        \/ StepRecordRequest(w)
        \/ StepRecordStreamCompletion(w)
        \/ StepRecordError(w)
        \/ StepReset(w)
        \/ StepSaveResults(w)
        \/ EnterNestedSessionMetrics(w)
        \/ StepGetSessionMetrics(w)
        \/ EnterNested(w)
        \/ LeaveNested(w)
        \/ LeaveNestedSessionMetrics(w)
        \/ Leave(w)

SpecExport == Init /\ [][NextExport]_vars

---------------------------------------------------------------------------

(* The threads under a fair scheduler: a thread that can execute its next  *)
(* statement does so in the end, and a thread that waits for the lock gets *)
(* it in the end if the lock is free again and again.                      *)

\* w takes the lock at the "with self._lock" that opens an operation.
Acquire(w) ==
    \/ EnterRecordError(w)
    \/ EnterSaveResults(w)
    \/ EnterGetSessionMetrics(w)

\* w executes a statement of the operation it is in, enters a call made
\* inside it, or returns.
Proceed(w) ==
    \/ StepRecordError(w)
    \/ StepSaveResults(w)
    \/ StepGetSessionMetrics(w)
    \/ EnterNestedSessionMetrics(w)
    \/ EnterNested(w)
    \/ LeaveNested(w)
    \/ LeaveNestedSessionMetrics(w)
    \/ Leave(w)

\* Threads that record, read the session metrics and export.
NextLock ==
    \E w \in Workers :
        \/ Call(w)
        \/ Acquire(w)
        \/ Proceed(w)

SpecFair ==
    /\ Init
    /\ [][NextLock]_vars
    /\ \A w \in Workers : WF_vars(Proceed(w)) /\ SF_vars(Acquire(w))

---------------------------------------------------------------------------

(* LlmApiClient (api_client/client.py): the coroutines that issue the      *)
(* requests and report them to the collector. A coroutine runs from one    *)
(* await to the next without another one in between, so each action is     *)
(* the code between two awaits; pc and frame hold the position and the     *)
(* locals of each coroutine.                                               *)

\* Bound: the retries the client is configured with (config.max_retries).
MaxRetries == 1

\* The collector after the record_request call of _make_request (client.py
\* 204-212): is_stream=False, and no request_id among the arguments, so
\* that it has its default, None.
ClientRecordRequest(s, f, status_code, ttft, ttct, content_length, now) ==
    record_request(s, f.endpoint, f.method, status_code, ttft, ttct,
                   content_length, FALSE, NoneId, now)

\* The collector after the record_stream_completion call of
\* _handle_streaming_response (client.py 347-353): no request_id among the
\* arguments either.
ClientRecordStreamCompletion(s, f, ttft, ttct, token_count, now) ==
    record_stream_completion(s, f.endpoint, f.status_code, ttft, ttct,
                             token_count, NoneId, now)

\* Mutant of Exhausted: the number of retries is not limited.
Exhausted_Never(retry_count) == FALSE

\* if retry_count > self.config.max_retries
Exhausted(retry_count) == retry_count > MaxRetries

\* A coroutine calls _make_request (get, post, patch or delete), with
\* retry_count = 0. errors_before is history: the number of errors the
\* collector held when the request was issued.
MakeRequest(w) ==
    /\ pc[w] = "idle"
    /\ CallsMade(Self) < MaxCalls
    /\ \E endpoint \in Endpoints, method \in Methods, stream \in BOOLEAN :
          frame' = [frame EXCEPT ![w] =
                       [op |-> "_make_request", endpoint |-> endpoint,
                        method |-> method, stream |-> stream,
                        retry_count |-> 0, status_code |-> 0,
                        errors_before |-> NumErrors(errors)]]
    /\ pc' = [pc EXCEPT ![w] = "mr165"]
    /\ UNCHANGED <<fields, clock, lock, log, last, held, disk, others>>

\* if retry_count > self.config.max_retries: raise Exception(...)
RetriesExhausted(w) ==
    /\ pc[w] = "mr165"
    /\ Exhausted(frame[w].retry_count)
    /\ last' = [op |-> "_make_request", caller |-> "_make_request",
                raised |-> "max_retries",
                retry_count |-> frame[w].retry_count,
                errors_before |-> frame[w].errors_before, before |-> Self]
    /\ pc' = [pc EXCEPT ![w] = "idle"]
    /\ frame' = [frame EXCEPT ![w] = NoFrame]
    /\ UNCHANGED <<fields, clock, lock, log, held, disk, others>>

\* client.request returns the response of a request that is no stream
\* (client.py 181-253): the request is recorded; a body of an error
\* response that is no JSON makes json.loads raise (line 217), and the
\* handler of line 271 records a "general" error on top.
Responded(w) ==
    /\ pc[w] = "mr165"
    /\ ~Exhausted(frame[w].retry_count)
    /\ CallsMade(Self) < MaxCalls
    /\ ~frame[w].stream
    /\ \E status_code \in StatusCodes, ttft \in Ttfts, ttct \in Ttcts,
          content_length \in ContentLengths, body_is_json \in BOOLEAN,
          error_message \in Messages :
          LET recorded == ClientRecordRequest(Self, frame[w], status_code,
                                              ttft, ttct, content_length,
                                              clock)
          IN  /\ Assign(IF status_code >= 400 /\ ~body_is_json
                        THEN record_error(recorded, "general", error_message,
                                          frame[w].endpoint, clock)
                        ELSE recorded)
              /\ last' = [op |-> "record_request",
                          caller |-> "_make_request",
                          passed_request_id |-> NoneId,
                          request_id |-> EffectiveId(NoneId, frame[w].endpoint,
                                                     clock),
                          status_code |-> status_code, is_stream |-> FALSE,
                          ttft |-> ttft, before |-> Self]
    /\ pc' = [pc EXCEPT ![w] = "idle"]
    /\ frame' = [frame EXCEPT ![w] = NoFrame]
    /\ UNCHANGED <<clock, lock, log, held, disk, others>>

\* client.request returns the response of a stream (client.py 194-196):
\* nothing is recorded, the generator of _handle_streaming_response is
\* returned.
RespondedWithStream(w) ==
    /\ pc[w] = "mr165"
    /\ ~Exhausted(frame[w].retry_count)
    /\ frame[w].stream
    /\ \E status_code \in StatusCodes :
          frame' = [frame EXCEPT ![w].status_code = status_code]
    /\ pc' = [pc EXCEPT ![w] = "hs301"]
    /\ UNCHANGED <<fields, clock, lock, log, last, held, disk, others>>

\* httpx.TimeoutException or httpx.NetworkError (client.py 255-269): the
\* error is recorded and, after retry_delay, _make_request is called again
\* with retry_count + 1.
AttemptFailed(w) ==
    /\ pc[w] = "mr165"
    /\ ~Exhausted(frame[w].retry_count)
    /\ CallsMade(Self) < MaxCalls
    /\ \E error_type \in {"timeout", "network"}, error_message \in Messages :
          /\ Assign(record_error(Self, error_type, error_message,
                                 frame[w].endpoint, clock))
          /\ last' = [op |-> "record_error", caller |-> "_make_request",
                      error_type |-> error_type, before |-> Self]
    /\ frame' = [frame EXCEPT ![w].retry_count = @ + 1]
    /\ UNCHANGED <<clock, lock, pc, log, held, disk, others>>

\* Any other exception (client.py 271-279): recorded as "general", no
\* retry.
RequestFailed(w) ==
    /\ pc[w] = "mr165"
    /\ ~Exhausted(frame[w].retry_count)
    /\ CallsMade(Self) < MaxCalls
    /\ \E error_message \in Messages :
          /\ Assign(record_error(Self, "general", error_message,
                                 frame[w].endpoint, clock))
          /\ last' = [op |-> "record_error", caller |-> "_make_request",
                      error_type |-> "general", before |-> Self]
    /\ pc' = [pc EXCEPT ![w] = "idle"]
    /\ frame' = [frame EXCEPT ![w] = NoFrame]
    /\ UNCHANGED <<clock, lock, log, held, disk, others>>

\* _handle_streaming_response with a status of 400 or more (client.py
\* 301-314): a "stream" error is recorded and the event "error" is yielded.
\* event in last is history: the last event the consumer of the stream got
\* from it, "none" when the generator ended without one.
StreamRefused(w) ==
    /\ pc[w] = "hs301"
    /\ CallsMade(Self) < MaxCalls
    /\ frame[w].status_code >= 400
    /\ \E error_message \in Messages :
          /\ Assign(record_error(Self, "stream", error_message,
                                 frame[w].endpoint, clock))
          /\ last' = [op |-> "record_error",
                      caller |-> "_handle_streaming_response",
                      event |-> "error",
                      error_type |-> "stream", before |-> Self]
    /\ pc' = [pc EXCEPT ![w] = "idle"]
    /\ frame' = [frame EXCEPT ![w] = NoFrame]
    /\ UNCHANGED <<clock, lock, log, held, disk, others>>

\* _handle_streaming_response with a status of 400 or more and a body that
\* is no JSON (client.py 301-304): json.loads(error_text) is outside the
\* try block, so its exception leaves the generator; nothing is recorded
\* and no event is yielded.
StreamErrorUnreadable(w) ==
    /\ pc[w] = "hs301"
    /\ frame[w].status_code >= 400
    /\ last' = [op |-> "_handle_streaming_response",
                caller |-> "_handle_streaming_response",
                raised |-> "JSONDecodeError", event |-> "none",
                before |-> Self]
    /\ pc' = [pc EXCEPT ![w] = "idle"]
    /\ frame' = [frame EXCEPT ![w] = NoFrame]
    /\ UNCHANGED <<fields, clock, lock, log, held, disk, others>>

\* The server sends the line "event: error" in a stream of status below
\* 400: the generator yields an event of that type (client.py 339-341), and
\* a consumer like BookClient.generate_chapter_outline returns at it
\* (book_client.py 160-165) and reads no further, so the generator is closed
\* at that yield; GeneratorExit is no Exception and nothing is recorded.
StreamAbandoned(w) ==
    /\ pc[w] = "hs301"
    /\ frame[w].status_code < 400
    /\ last' = [op |-> "_handle_streaming_response",
                caller |-> "_handle_streaming_response",
                raised |-> "GeneratorExit", event |-> "error",
                before |-> Self]
    /\ pc' = [pc EXCEPT ![w] = "idle"]
    /\ frame' = [frame EXCEPT ![w] = NoFrame]
    /\ UNCHANGED <<fields, clock, lock, log, held, disk, others>>

\* The stream has been read to its end (client.py 344-355): its completion
\* is recorded.
StreamCompleted(w) ==
    /\ pc[w] = "hs301"
    /\ CallsMade(Self) < MaxCalls
    /\ frame[w].status_code < 400
    /\ \E ttft \in Ttfts, ttct \in Ttcts, token_count \in TokenCounts :
          /\ Assign(ClientRecordStreamCompletion(Self, frame[w], ttft, ttct,
                                                 token_count, clock))
          /\ last' = [op |-> "record_stream_completion",
                      caller |-> "_handle_streaming_response",
                      event |-> "done",
                      passed_request_id |-> NoneId,
                      request_id |-> EffectiveId(NoneId, frame[w].endpoint,
                                                 clock),
                      status_code |-> frame[w].status_code, ttft |-> ttft,
                      ttct |-> ttct, token_count |-> token_count,
                      cleared |-> {}, before |-> Self]
    /\ pc' = [pc EXCEPT ![w] = "idle"]
    /\ frame' = [frame EXCEPT ![w] = NoFrame]
    /\ UNCHANGED <<clock, lock, log, held, disk, others>>

\* Reading the stream raises (client.py 357-361): a "stream_process"
\* error is recorded.
StreamBroke(w) ==
    /\ pc[w] = "hs301"
    /\ CallsMade(Self) < MaxCalls
    /\ frame[w].status_code < 400
    /\ \E error_message \in Messages :
          /\ Assign(record_error(Self, "stream_process", error_message,
                                 frame[w].endpoint, clock))
          /\ last' = [op |-> "record_error",
                      caller |-> "_handle_streaming_response",
                      event |-> "error",
                      error_type |-> "stream_process", before |-> Self]
    /\ pc' = [pc EXCEPT ![w] = "idle"]
    /\ frame' = [frame EXCEPT ![w] = NoFrame]
    /\ UNCHANGED <<clock, lock, log, held, disk, others>>

\* The coroutines of the client.
NextClient ==
    \E w \in Workers :
        \/ MakeRequest(w)
        \/ RetriesExhausted(w)
        \/ Responded(w)
        \/ RespondedWithStream(w)
        \/ AttemptFailed(w)
        \/ RequestFailed(w)
        \/ StreamRefused(w)
        \/ StreamErrorUnreadable(w)
        \/ StreamCompleted(w)
        \/ StreamAbandoned(w)
        \/ StreamBroke(w)

SpecClient == Init /\ [][NextClient]_vars

\* A coroutine issues a request when no other request is under way and the
\* calls the request can record are within the bound of the model.
IssueRequest(w) ==
    /\ \A v \in Workers : pc[v] = "idle"
    /\ CallsMade(Self) + MaxRetries < MaxCalls
    /\ MakeRequest(w)

\* The request of w gets on: an attempt of it ends, with a response, a
\* failure or the refusal to retry, or its stream ends.
Attempt(w) ==
    \/ RetriesExhausted(w)
    \/ Responded(w)
    \/ RespondedWithStream(w)
    \/ AttemptFailed(w)
    \/ RequestFailed(w)
    \/ StreamRefused(w)
    \/ StreamErrorUnreadable(w)
    \/ StreamCompleted(w)
    \/ StreamAbandoned(w)
    \/ StreamBroke(w)

NextRetry ==
    \E w \in Workers :
        \/ IssueRequest(w)
        \/ Attempt(w)

\* Every attempt ends: client.request has the timeout of the configuration
\* and asyncio.sleep(retry_delay) returns.
SpecRetry ==
    /\ Init
    /\ [][NextRetry]_vars
    /\ \A w \in Workers : WF_vars(Attempt(w))

---------------------------------------------------------------------------

(* DreaminkFloraClient._make_request (api_client.py 131-281): the loop     *)
(* "for attempt in range(self.max_retries)" around one HTTP request. The   *)
(* client has no collector; pc and frame hold the position and the locals  *)
(* of each coroutine, last the value the call returned.                    *)

\* The values of max_retries the client is constructed with.
RetryConfigs == 0..(MaxRetries + 1)

\* APIResponse(status_code, success), the fields the callers test.
APIResponse(status_code, success) ==
    [type |-> "APIResponse", status_code |-> status_code, success |-> success]

\* What a call returns that ends without a return statement.
None == [type |-> "None"]

\* attempt in range(self.max_retries)
InRange(attempt, max_retries) == attempt < max_retries

\* _make_request returns value; attempts and discarded are history: the
\* attempts made and the HTTP responses received in attempts that did not
\* end the loop.
FloraReturn(w, value, attempts, discarded) ==
    /\ last' = [op |-> "DreaminkFloraClient._make_request", returned |-> value,
                max_retries |-> frame[w].max_retries, attempts |-> attempts,
                discarded |-> discarded]
    /\ pc' = [pc EXCEPT ![w] = "idle"]
    /\ frame' = [frame EXCEPT ![w] = NoFrame]

\* A coroutine calls _make_request of a client.
FloraMakeRequest(w) ==
    /\ pc[w] = "idle"
    /\ \E max_retries \in RetryConfigs, stream \in BOOLEAN :
          frame' = [frame EXCEPT ![w] =
                       [op |-> "DreaminkFloraClient._make_request",
                        max_retries |-> max_retries, stream |-> stream,
                        attempt |-> 0, discarded |-> 0]]
    /\ pc' = [pc EXCEPT ![w] = "df158"]
    /\ UNCHANGED <<fields, clock, lock, log, held, disk, others>>
    /\ UNCHANGED last

\* The response of an attempt has come and its body has been read: the
\* APIResponse is returned, success for a status in 200..299 (lines 164-189,
\* 206-231) and failure for another one (190-200, 232-242).
FloraResponded(w) ==
    /\ pc[w] = "df158"
    /\ InRange(frame[w].attempt, frame[w].max_retries)
    /\ \E status_code \in BoundaryCodes :
          FloraReturn(w, APIResponse(status_code,
                                     status_code >= 200 /\ status_code < 300),
                      frame[w].attempt + 1, frame[w].discarded)
    /\ UNCHANGED <<fields, clock, lock, log, held, disk, others>>

\* An attempt ends with asyncio.TimeoutError or another exception (lines
\* 244-270), before a response has come (received = 0) or after it, while
\* its body is read or parsed by response.json() (received = 1): the last
\* attempt returns an APIResponse of status 0, any other one is followed by
\* the next after retry_delay.
FloraAttemptFailed(w) ==
    /\ pc[w] = "df158"
    /\ InRange(frame[w].attempt, frame[w].max_retries)
    /\ \E received \in {0, 1} :
          IF frame[w].attempt = frame[w].max_retries - 1
          THEN FloraReturn(w, APIResponse(0, FALSE), frame[w].attempt + 1,
                           frame[w].discarded + received)
          ELSE /\ frame' = [frame EXCEPT ![w].attempt = @ + 1,
                                         ![w].discarded = @ + received]
               /\ UNCHANGED <<pc, last>>
    /\ UNCHANGED <<fields, clock, lock, log, held, disk, others>>

\* The loop ends without a return: the body of the function is left at its
\* end.
FloraLoopEnds(w) ==
    /\ pc[w] = "df158"
    /\ ~InRange(frame[w].attempt, frame[w].max_retries)
    /\ FloraReturn(w, None, frame[w].attempt, frame[w].discarded)
    /\ UNCHANGED <<fields, clock, lock, log, held, disk, others>>

NextFlora ==
    \E w \in Workers :
        \/ FloraMakeRequest(w)
        \/ FloraResponded(w)
        \/ FloraAttemptFailed(w)
        \/ FloraLoopEnds(w)

SpecFlora == Init /\ [][NextFlora]_vars

---------------------------------------------------------------------------

(* ClientPool (api_client.py 520-588): a list of clients, an               *)
(* asyncio.Semaphore that counts the clients in the list and an            *)
(* asyncio.Lock around the list. The callers are coroutines of one event   *)
(* loop: one statement of one coroutine at a time, and a coroutine can be  *)
(* suspended at each await.                                                *)

\* Bound: the number of tokens a pool is constructed with.
MaxTokens == 2

\* max_clients = None
NoLimit == 0

\* min(len(tokens), self.max_clients), with
\* self.max_clients = max_clients or len(tokens)
PoolSize(num_tokens, max_clients) ==
    LET limit == IF max_clients = NoLimit THEN num_tokens ELSE max_clients
    IN  IF num_tokens <= limit THEN num_tokens ELSE limit

\* ClientPool(base_url, tokens, max_clients): one client for each of the
\* first PoolSize tokens; client i is the one of tokens[i]. size is history.
NewClientPool ==
    /\ ~pool.built
    /\ \E num_tokens \in 0..MaxTokens, max_clients \in {NoLimit} \cup 1..MaxTokens :
          LET n == PoolSize(num_tokens, max_clients)
          IN  pool' = [built |-> TRUE, clients |-> [i \in 1..n |-> i],
                       available |-> n, lock |-> NoWorker, size |-> n]
    /\ UNCHANGED <<fields, clock, threads, last, held, disk, client, runner>>

\* Mutant of HasPermit: the semaphore lets every caller pass.
HasPermit_Always(available) == TRUE

\* asyncio.Semaphore.acquire returns when the value is positive.
HasPermit(available) == available > 0

\* The coroutine w goes from the label from to the label to.
PoolStep(w, from, to) ==
    /\ pool.built
    /\ pc[w] = from
    /\ pc' = [pc EXCEPT ![w] = to]
    /\ UNCHANGED <<fields, clock, lock, log, held, disk, client, runner>>

\* A coroutine calls pool.execute(func_name, ...).
Execute(w) ==
    /\ PoolStep(w, "idle", "gc557")
    /\ frame' = [frame EXCEPT ![w] = [op |-> "execute", client |-> 0,
                                      raised |-> FALSE]]
    /\ UNCHANGED <<pool, last>>

\* get_client: await self.available.acquire()
AcquirePermit(w) ==
    /\ PoolStep(w, "gc557", "gc558")
    /\ HasPermit(pool.available)
    /\ pool' = [pool EXCEPT !.available = @ - 1]
    /\ UNCHANGED <<frame, last>>

\* get_client: async with self.lock (entry)
LockForPop(w) ==
    /\ PoolStep(w, "gc558", "gc559")
    /\ pool.lock = NoWorker
    /\ pool' = [pool EXCEPT !.lock = w]
    /\ UNCHANGED <<frame, last>>

\* get_client: return self.clients.pop(), which takes the last client of
\* the list and raises IndexError on an empty list; the lock is released.
PopClient(w) ==
    /\ PoolStep(w, "gc559", IF pool.clients = <<>> THEN "idle" ELSE "ex582")
    /\ IF pool.clients = <<>>
       THEN /\ pool' = [pool EXCEPT !.lock = NoWorker]
            /\ frame' = [frame EXCEPT ![w] = NoFrame]
            /\ last' = [op |-> "execute", raised |-> "IndexError"]
       ELSE /\ pool' = [pool EXCEPT
                          !.clients = SubSeq(@, 1, Len(@) - 1),
                          !.lock = NoWorker]
            /\ frame' = [frame EXCEPT ![w].client =
                                          pool.clients[Len(pool.clients)]]
            /\ UNCHANGED last

\* execute: result = await method(*args, **kwargs), which returns or
\* raises; the finally clause follows in both cases.
MethodEnds(w) ==
    /\ PoolStep(w, "ex582", "rc567")
    /\ \E raised \in BOOLEAN :
          frame' = [frame EXCEPT ![w].raised = raised]
    /\ UNCHANGED <<pool, last>>

\* release_client: async with self.lock (entry)
LockForAppend(w) ==
    /\ PoolStep(w, "rc567", "rc568")
    /\ pool.lock = NoWorker
    /\ pool' = [pool EXCEPT !.lock = w]
    /\ UNCHANGED <<frame, last>>

\* release_client: self.clients.append(client); the lock is released.
AppendClient(w) ==
    /\ PoolStep(w, "rc568", "rc569")
    /\ pool' = [pool EXCEPT !.clients = Append(@, frame[w].client),
                            !.lock = NoWorker]
    /\ UNCHANGED <<frame, last>>

\* release_client: self.available.release(); execute returns the result
\* or lets the exception of the method pass.
ReleasePermit(w) ==
    /\ PoolStep(w, "rc569", "idle")
    /\ pool' = [pool EXCEPT !.available = @ + 1]
    /\ last' = [op |-> "execute", client |-> frame[w].client,
                raised |-> IF frame[w].raised THEN "Exception" ELSE "None"]
    /\ frame' = [frame EXCEPT ![w] = NoFrame]

NextPool ==
    \/ NewClientPool
    \/ \E w \in Workers :
          \/ Execute(w)
          \/ AcquirePermit(w)
          \/ LockForPop(w)
          \/ PopClient(w)
          \/ MethodEnds(w)
          \/ LockForAppend(w)
          \/ AppendClient(w)
          \/ ReleasePermit(w)

SpecPool == Init /\ [][NextPool]_vars

---------------------------------------------------------------------------

(* LlmApiClient's tokens (api_client/client.py 54-115): the table read     *)
(* from the tokens file, user id -> token in the order of the file, and    *)
(* the index of the token handed out last.                                 *)

\* The rows of a tokens file.
TokenRows ==
    <<[user_id |-> "u1", token |-> "t1"], [user_id |-> "u2", token |-> "t2"],
      [user_id |-> "u3", token |-> "t3"]>>

\* The user ids a caller passes to get_token: None, the users of the file
\* and one that is in no file.
UserIds == {NoneId, "u1", "u2", "u3", "u9"}

\* LlmApiClient(config): self.token_data = self._load_tokens(), and
\* self._last_token_index = 0. current_token is history: the token the last
\* get_token call returned; calls counts the get_token calls.
NewLlmApiClient ==
    /\ ~client.built
    /\ \E n \in 0..Len(TokenRows) :
          client' = [built |-> TRUE, token_data |-> SubSeq(TokenRows, 1, n),
                     last_token_index |-> 0, current_token |-> NoneId,
                     calls |-> 0]
    /\ last' = [op |-> "LlmApiClient"]
    /\ UNCHANGED <<fields, clock, threads, held, disk, pool, runner>>

\* list(self.token_data.values())
Tokens(c) == [i \in 1..Len(c.token_data) |-> c.token_data[i].token]

\* list(self.token_data.keys())
UserIdsOf(c) == [i \in 1..Len(c.token_data) |-> c.token_data[i].user_id]

\* user_id in self.token_data
Known(c, user_id) ==
    \E i \in 1..Len(c.token_data) : c.token_data[i].user_id = user_id

\* self.token_data[user_id]
TokenOf(c, user_id) ==
    LET i == CHOOSE j \in 1..Len(c.token_data) :
                 c.token_data[j].user_id = user_id
    IN  c.token_data[i].token

\* (self._last_token_index + 1) % len(self.tokens)
NextIndex(c) == (c.last_token_index + 1) % Len(c.token_data)

\* get_token(user_id): the token returned and the client after the call;
\* ValueError when there is no token. Python lists are indexed from 0.
get_token(c, user_id) ==
    IF Tokens(c) = <<>>
    THEN [raised |-> "ValueError", returned |-> NoneId, c |-> c]
    ELSE IF user_id # NoneId /\ Known(c, user_id)
    THEN [raised |-> "None", returned |-> TokenOf(c, user_id), c |-> c]
    ELSE [raised |-> "None", returned |-> Tokens(c)[NextIndex(c) + 1],
          c |-> [c EXCEPT !.last_token_index = NextIndex(c)]]

\* get_user_id(): self.user_ids[self._last_token_index]
get_user_id(c) ==
    IF UserIdsOf(c) = <<>>
    THEN [raised |-> "ValueError", returned |-> NoneId]
    ELSE [raised |-> "None", returned |-> UserIdsOf(c)[c.last_token_index + 1]]

GetToken ==
    /\ client.built
    /\ client.calls < MaxCalls
    /\ \E user_id \in UserIds :
          LET r == get_token(client, user_id)
          IN  /\ client' = [r.c EXCEPT
                              !.current_token =
                                  IF r.raised = "None" THEN r.returned ELSE @,
                              !.calls = @ + 1]
              /\ last' = [op |-> "get_token", user_id |-> user_id,
                          raised |-> r.raised, returned |-> r.returned]
    /\ UNCHANGED <<fields, clock, threads, held, disk, pool, runner>>

GetUserId ==
    /\ client.built
    /\ LET r == get_user_id(client)
       IN  last' = [op |-> "get_user_id", raised |-> r.raised,
                    returned |-> r.returned]
    /\ UNCHANGED <<fields, clock, threads, held, disk, others>>

NextToken ==
    \/ NewLlmApiClient
    \/ GetToken
    \/ GetUserId

SpecToken == Init /\ [][NextToken]_vars

---------------------------------------------------------------------------

(* TestRunner (test_runner.py): self.current_test_process, the Popen       *)
(* object of the locust process started last, and the times of the test.   *)
(* The process ends by itself when its --run-time is over.                  *)

\* subprocess.Popen(locust_cmd, ...), started at the time now.
Popen(now) == [state |-> "running", started |-> now]

\* The process p after it has ended.
Ended(p) == [p EXCEPT !.state = "exited"]

\* if self.current_test_process:
Refused(r) == r.current_test_process # NoProcess

\* run_locust_test: refused while a process is referenced, refused when the
\* test file does not exist, else the process is started. alive in last is
\* history: a process started before was still running at the call.
RunLocustTest ==
    /\ \E file_exists \in BOOLEAN :
          LET result == IF Refused(runner) THEN "error: test already running"
                        ELSE IF ~file_exists THEN "error: no test file"
                        ELSE "running"
          IN  /\ runner' = IF result = "running"
                           THEN [runner EXCEPT
                                   !.test_start_time = clock,
                                   !.current_test_process = Popen(clock)]
                           ELSE runner
              /\ last' = [op |-> "run_locust_test", result |-> result,
                          file_exists |-> file_exists,
                          alive |-> runner.current_test_process.state = "running"]
    /\ UNCHANGED <<fields, clock, threads, held, disk, pool, client>>

\* The locust process ends by itself.
ProcessExits ==
    /\ runner.current_test_process.state = "running"
    /\ runner' = [runner EXCEPT !.current_test_process = Ended(@)]
    /\ UNCHANGED <<fields, clock, threads, last, held, disk, pool, client>>

\* stop_current_test(force): without a process "no_test_running"; else the
\* process is killed or terminated and waited for, its output is written
\* to a log file and the reference is cleared (lines 405-445); an exception
\* in between, as of open(log_file, "w"), gives the status "error" and
\* leaves the reference (447-449).
StopCurrentTest ==
    /\ \E force \in BOOLEAN, log_written \in BOOLEAN :
          IF ~Refused(runner)
          THEN /\ last' = [op |-> "stop_current_test",
                           result |-> "no_test_running"]
               /\ UNCHANGED runner
          ELSE IF log_written
          THEN /\ last' = [op |-> "stop_current_test", result |-> "stopped",
                           force |-> force,
                           duration |-> clock - runner.test_start_time]
               /\ runner' = [runner EXCEPT !.test_end_time = clock,
                                           !.current_test_process = NoProcess]
          ELSE /\ last' = [op |-> "stop_current_test", result |-> "error",
                           force |-> force]
               /\ runner' = [runner EXCEPT !.test_end_time = clock,
                                           !.current_test_process = Ended(@)]
    /\ UNCHANGED <<fields, clock, threads, held, disk, pool, client>>

\* get_test_status(): "no_test_running" without a process, "running" while
\* poll() is None, else "completed".
get_test_status(r) ==
    IF ~Refused(r) THEN "no_test_running"
    ELSE IF r.current_test_process.state = "running" THEN "running"
    ELSE "completed"

GetTestStatus ==
    /\ last' = [op |-> "get_test_status", result |-> get_test_status(runner)]
    /\ UNCHANGED <<fields, clock, threads, held, disk, others>>

NextRunner ==
    \/ RunLocustTest
    \/ ProcessExits
    \/ StopCurrentTest
    \/ GetTestStatus
    \/ Tick

SpecRunner == Init /\ [][NextRunner]_vars

---------------------------------------------------------------------------

(* Properties of the recording operations.                                 *)

\* success_count + failure_count of a collector value.
Tallied(s) == s.success_count + s.failure_count

\* The stream history of s holds a record of request_id.
HasStreamRecord(s, request_id) ==
    \E i \in 1..Len(s.stream_metrics) :
        s.stream_metrics[i].request_id = request_id

\* The full history of s holds a non-streaming record of request_id.
HasNonStreamRecord(s, request_id) ==
    \E i \in 1..Len(s.requests) :
        /\ s.requests[i].request_id = request_id
        /\ ~s.requests[i].is_stream

\* The sequence q is the sequence p with one item x appended.
Appended(p, q, x) ==
    /\ Len(q) = Len(p) + 1
    /\ SubSeq(q, 1, Len(p)) = p
    /\ q[Len(q)] = x

\* C1: a record_stream_completion call adds 1 to success_count +
\* failure_count when the stream history since the last reset holds no
\* record of its request_id, and nothing when it does; so n >= 1 calls with
\* one request_id add exactly 1 in total, and a second call with status 200
\* leaves success_count as the first left it.
C1_StreamCompletionTalliedOnce ==
    last.op = "record_stream_completion" =>
        LET b == last.before
            again == HasStreamRecord(b, last.request_id)
        IN  /\ Tallied(Self) = Tallied(b) + (IF again THEN 0 ELSE 1)
            /\ again => /\ success_count = b.success_count
                        /\ failure_count = b.failure_count
            /\ (~again /\ last.status_code = 200) =>
                   /\ success_count = b.success_count + 1
                   /\ failure_count = b.failure_count

\* Two completions of one request_id with status 200, the second just made,
\* with another call in between.
C1_Witness ==
    /\ last.op = "record_stream_completion"
    /\ Len(stream_metrics) = 2
    /\ stream_metrics[1].request_id = stream_metrics[2].request_id
    /\ stream_metrics[1].status_code = 200
    /\ stream_metrics[2].status_code = 200
    /\ Len(requests) = 1
    /\ requests[1].is_stream
    /\ success_count = 1

C5_RepeatedCompletionFrame ==
    (/\ last.op = "record_stream_completion"
     /\ last.request_id \in last.before.sse_request_ids) =>
        LET b == last.before
        IN  /\ total_tokens = b.total_tokens + last.token_count
            /\ Len(stream_metrics) = Len(b.stream_metrics) + 1
            /\ SubSeq(stream_metrics, 1, Len(b.stream_metrics))
                   = b.stream_metrics
            /\ stream_metrics[Len(stream_metrics)].request_id
                   = last.request_id
            /\ stream_metrics[Len(stream_metrics)].token_count
                   = last.token_count
            /\ Len(b.recent_ttfts) < RecentTtftsMaxLen =>
                   Appended(b.recent_ttfts, recent_ttfts, last.ttft)
            /\ Len(b.recent_ttcts) < RecentTtctsMaxLen =>
                   Appended(b.recent_ttcts, recent_ttcts, last.ttct)
            /\ success_count = b.success_count
            /\ failure_count = b.failure_count
            /\ total_request_count = b.total_request_count

\* A repeated completion with the other status than the first one's.
C5_Witness ==
    /\ last.op = "record_stream_completion"
    /\ last.request_id \in last.before.sse_request_ids
    /\ Len(stream_metrics) = 2
    /\ stream_metrics[1].status_code = 500
    /\ stream_metrics[2].status_code = 200
    /\ total_tokens = 100

\* C6: record_request with is_stream = true leaves success_count and
\* failure_count unchanged whatever the status code: the tally of a streaming
\* call is left to record_stream_completion and record_error.
C6_StreamRequestNotTallied ==
    (last.op = "record_request" /\ last.is_stream) =>
        /\ success_count = last.before.success_count
        /\ failure_count = last.before.failure_count

\* A streaming record_request with a failure status made after a tally.
C6_Witness ==
    /\ last.op = "record_request"
    /\ last.is_stream
    /\ last.status_code = 500
    /\ success_count = 1
    /\ failure_count = 0

\* C7: a non-streaming record_request adds 1 to success_count alone when
\* 200 <= status_code < 300 and 1 to failure_count alone otherwise; three of
\* them with the codes 200, 200, 500 on a fresh collector give 2 successes,
\* 1 failure and the success rate 2/3.
C7_NonStreamTallyByStatus ==
    /\ (last.op = "record_request" /\ ~last.is_stream) =>
           LET b == last.before
               ok == last.status_code >= 200 /\ last.status_code <= 299
           IN  /\ success_count = b.success_count + (IF ok THEN 1 ELSE 0)
               /\ failure_count = b.failure_count + (IF ok THEN 0 ELSE 1)
    /\ (/\ stream_metrics = <<>>
        /\ DOMAIN errors = {}
        /\ Len(requests) = 3
        /\ \A i \in 1..3 : ~requests[i].is_stream
        /\ requests[1].status_code = 200
        /\ requests[2].status_code = 200
        /\ requests[3].status_code = 500) =>
           /\ success_count = 2
           /\ failure_count = 1
           /\ get_success_rate(Self) = <<2, 3>>

\* The codes 200, 299, 300 recorded in this order: 300 is the one failure.
C7_Witness ==
    /\ last.op = "record_request"
    /\ Len(requests) = 3
    /\ \A i \in 1..3 : ~requests[i].is_stream
    /\ requests[1].status_code = 200
    /\ requests[2].status_code = 299
    /\ requests[3].status_code = 300
    /\ success_count = 2
    /\ failure_count = 1

\* The request ids of the full history are pairwise distinct.
DistinctRequestIds(s) ==
    \A i, j \in 1..Len(s.requests) :
        i # j => s.requests[i].request_id # s.requests[j].request_id

\* The records of the full history with is_stream = false.
NonStreamCalls(s) == {i \in 1..Len(s.requests) : ~s.requests[i].is_stream}

\* C8: after record_request calls only, with pairwise distinct request ids,
\* on a fresh or freshly reset collector, success_count + failure_count is
\* the number of those calls that had is_stream = false.
C8_OnlyNonStreamRequestsTallied ==
    (/\ stream_metrics = <<>>
     /\ DOMAIN errors = {}
     /\ DistinctRequestIds(Self)) =>
        Tallied(Self) = Cardinality(NonStreamCalls(Self))

\* Two record_request calls with distinct ids, one streaming, one not.
C8_Witness ==
    /\ last.op = "record_request"
    /\ stream_metrics = <<>>
    /\ DOMAIN errors = {}
    /\ Len(requests) = 2
    /\ DistinctRequestIds(Self)
    /\ requests[1].is_stream
    /\ ~requests[2].is_stream
    /\ Tallied(Self) = 1

\* The count get_error_summary gives for error_type, 0 when it is no key.
SummaryCount(s, error_type) ==
    IF error_type \in DOMAIN get_error_summary(s)
    THEN get_error_summary(s)[error_type]
    ELSE 0

\* C9: record_error adds 1 to failure_count and 1 to the error_summary count
\* of its error_type, and 1 to timeout_count exactly when error_type is
\* "timeout"; two record_error("timeout") calls on a fresh collector give the
\* summary {"timeout": 2} and failure_count 2.
C9_RecordErrorCounts ==
    /\ last.op = "record_error" =>
           LET b == last.before
           IN  /\ failure_count = b.failure_count + 1
               /\ SummaryCount(Self, last.error_type)
                      = SummaryCount(b, last.error_type) + 1
               /\ timeout_count = b.timeout_count
                      + (IF last.error_type = "timeout" THEN 1 ELSE 0)
    /\ (/\ requests = <<>>
        /\ stream_metrics = <<>>
        /\ DOMAIN errors = {"timeout"}
        /\ Len(errors["timeout"]) = 2) =>
           /\ get_error_summary(Self) = [k \in {"timeout"} |-> 2]
           /\ failure_count = 2

\* A "network" error recorded after a "timeout" error.
C9_Witness ==
    /\ last.op = "record_error"
    /\ last.error_type = "network"
    /\ DOMAIN errors = {"timeout", "network"}
    /\ timeout_count = 1
    /\ failure_count = 2

\* C10: after reset the collector is the one freshly constructed at the time
\* of the reset (the session clock is restarted), and the first record_stream_completion after a
\* reset is tallied also when the reset dropped its request_id from the
\* seen-set.
C10_ResetGivesFreshCollector ==
    /\ last.op = "reset" => Self = Fresh(last.timestamp)
    /\ (/\ last.op = "record_stream_completion"
        /\ last.request_id \in last.cleared) =>
           /\ Tallied(last.before) = 0
           /\ Tallied(Self) = 1
           /\ sse_request_ids = {last.request_id}

\* A request_id tallied, dropped by a reset made at a later time than the
\* construction, and tallied again.
C10_Witness ==
    /\ last.op = "record_stream_completion"
    /\ last.request_id \in last.cleared
    /\ session_start_time > 0
    /\ Tallied(Self) = 1


---------------------------------------------------------------------------
(* Properties of the threaded specification.                               *)

\* The call c of the log executed as one step on the collector value s.
Apply(s, c) ==
    CASE c.op = "record_request" ->
           record_request(s, c.endpoint, c.method, c.status_code, c.ttft,
                          c.ttct, c.content_length, c.is_stream, c.request_id,
                          c.timestamp)
      [] c.op = "record_stream_completion" ->
           record_stream_completion(s, c.endpoint, c.status_code, c.ttft,
                                    c.ttct, c.token_count, c.request_id,
                                    c.timestamp)
      [] c.op = "record_error" ->
           record_error(s, c.error_type, c.error_message, c.endpoint,
                        c.timestamp)
      [] c.op = "reset" -> reset(s, c.timestamp)
      [] c.op = "save_results" -> s

\* The calls of a log executed one at a time, in its order, on a fresh
\* collector.
Replay(calls) ==
    LET RECURSIVE Run(_)
        Run(n) == IF n = 0 THEN Fresh(0) ELSE Apply(Run(n - 1), calls[n])
    IN  Run(Len(calls))

\* The counters and the lengths of the histories of a collector value.
Observables(s) ==
    [total_requests |-> s.total_request_count,
     success_count |-> s.success_count,
     failure_count |-> s.failure_count,
     timeout_count |-> s.timeout_count,
     total_tokens |-> s.total_tokens,
     requests |-> Len(s.requests),
     stream_metrics |-> Len(s.stream_metrics),
     errors |-> get_error_summary(s),
     sse_requests |-> Len(s.sse_requests),
     non_sse_requests |-> Len(s.non_sse_requests),
     request_times |-> Len(s.request_times),
     recent_ttfts |-> Len(s.recent_ttfts),
     recent_ttcts |-> Len(s.recent_ttcts)]

\* C3: when all calls of the workers have returned, every counter and every
\* history length is the one that the same calls give when executed one at
\* a time in the order in which they took the lock.
C3_NoLostUpdates ==
    (\A w \in Workers : pc[w] = "idle") =>
        Observables(Self) = Observables(Replay(log))

\* Two workers were in record_request at the same time and both successes
\* are counted.
C3_Witness ==
    /\ \A w \in Workers : pc[w] = "idle"
    /\ Len(log) = 2
    /\ log[1].contended
    /\ log[1].op = "record_request"
    /\ log[2].op = "record_request"
    /\ success_count = 2

\* The labels at which a thread is inside get_session_metrics.
InsideGetSessionMetrics ==
    GetSessionMetricsBody \cup {"gm315", "gm316", "gl292", "ge302_exit", "gm_exit"}

\* The labels at which a thread is inside a mutating operation.
InsideMutator ==
    RecordRequestBody \cup RecordStreamCompletionBody \cup RecordErrorBody
        \cup ResetBody \cup {"rr_exit", "sc_exit", "er_exit", "rs_exit"}

\* The fields get_session_metrics copies, taken from one collector value.
SnapshotOf(s) ==
    [ttft_array |-> s.recent_ttfts, ttct_array |-> s.recent_ttcts,
     error_types |-> get_error_summary(s),
     success_count |-> s.success_count, failure_count |-> s.failure_count,
     total_requests |-> s.total_request_count,
     timeout_count |-> s.timeout_count, total_tokens |-> s.total_tokens]

\* The same fields as a thread has copied them into its frame.
SnapshotIn(f) ==
    [ttft_array |-> f.ttft_array, ttct_array |-> f.ttct_array,
     error_types |-> f.error_types,
     success_count |-> f.success_count, failure_count |-> f.failure_count,
     total_requests |-> f.total_requests,
     timeout_count |-> f.timeout_count, total_tokens |-> f.total_tokens]

\* C4: a mutating operation is inside its critical section only while it
\* holds the lock, and while a thread is inside get_session_metrics the
\* collector is the result of whole operations only (the calls of the log,
\* each executed completely), so that the snapshot it has copied at the end
\* is that of one such state.
C4_ReaderSeesWholeUpdates ==
    \A w \in Workers :
        /\ pc[w] \in InsideMutator => lock.owner = w
        /\ pc[w] \in InsideGetSessionMetrics =>
               /\ lock.owner = w
               /\ Self = Replay(log)
               /\ total_request_count = Len(requests)
        /\ pc[w] = "gm_exit" => SnapshotIn(frame[w]) = SnapshotOf(Replay(log))

\* A reader at its last statement that had to wait for a record_request of
\* another worker, and sees its record and its counters.
C4_Witness ==
    \E w \in Workers :
        /\ pc[w] = "gm_exit"
        /\ Len(log) >= 1
        /\ log[Len(log)].op = "record_request"
        /\ log[Len(log)].contended
        /\ frame[w].total_requests = Len(requests)
        /\ frame[w].total_requests >= 1

\* The labels at which a thread is inside reset: some fields may be cleared
\* and others not yet.
InsideReset == ResetBody \cup {"rs_exit"}

\* The call that took the lock last is a reset.
LastLoggedIsReset == Len(log) > 0 /\ log[Len(log)].op = "reset"

\* C11: while a thread is between the first and the last assignment of
\* reset it holds the lock and no other thread is inside a recording
\* operation or inside get_session_metrics; a reader that follows a reset
\* sees the collector as constructed at the time of the reset, and the
\* snapshot it has copied is that of this collector.
C11_ResetIsAtomic ==
    \A w \in Workers :
        /\ pc[w] \in InsideReset =>
               /\ lock.owner = w
               /\ LastLoggedIsReset
               /\ \A v \in Workers \ {w} :
                      pc[v] \notin InsideMutator \cup InsideGetSessionMetrics
        /\ (pc[w] \in InsideGetSessionMetrics /\ LastLoggedIsReset) =>
               Self = Fresh(log[Len(log)].timestamp)
        /\ (pc[w] = "gm_exit" /\ LastLoggedIsReset) =>
               SnapshotIn(frame[w])
                   = SnapshotOf(Fresh(log[Len(log)].timestamp))

\* A reader that waited for the lock while a reset cleared a collector that
\* held a record, and has copied the counters of the cleared collector.
C11_Witness ==
    \E w \in Workers :
        /\ pc[w] = "gm_exit"
        /\ Len(log) = 2
        /\ log[1].op = "record_request"
        /\ log[2].op = "reset"
        /\ log[2].contended
        /\ frame[w].total_requests = 0
        /\ requests = <<>>

---------------------------------------------------------------------------
(* Properties of the recent windows and of the histories.                  *)

\* The last n items of the sequence q, all of q when it has no more.
LastOf(q, n) == IF Len(q) <= n THEN q ELSE SubSeq(q, Len(q) - n + 1, Len(q))

\* The values of one field of the records of a history, in its order.
Column(h, field) == [i \in 1..Len(h) |-> h[i][field]]

\* The window q is the window b after the sample x was pushed to it: x is
\* its last item, the items of b follow in their order, and the oldest item
\* of b is gone exactly when b was full.
Pushed(b, q, x, capacity) ==
    LET dropped == IF Len(b) >= capacity THEN 1 ELSE 0
    IN  /\ Len(q) = Len(b) + 1 - dropped
        /\ q[Len(q)] = x
        /\ \A i \in 1..(Len(q) - 1) : q[i] = b[i + dropped]

\* C12: no recent window holds more samples than its capacity; every push
\* leaves the window with the sample pushed last and the samples before it
\* in insertion order, less the oldest one when the window was full; hence
\* after capacity + k insertions since the last reset the window holds the
\* capacity samples inserted last (those after the first k, in insertion
\* order), as the full history shows for the request times and, while one
\* operation only has been recording, for the two latency windows.
C12_RecentWindowsFifo ==
    /\ Len(request_times) <= RequestTimesMaxLen
    /\ Len(recent_ttfts) <= RecentTtftsMaxLen
    /\ Len(recent_ttcts) <= RecentTtctsMaxLen
    /\ request_times = LastOf(Column(requests, "timestamp"), RequestTimesMaxLen)
    /\ stream_metrics = <<>> =>
           /\ recent_ttcts = LastOf(Column(requests, "ttct"), RecentTtctsMaxLen)
           /\ recent_ttfts =
                  LastOf(SelectSeq(Column(requests, "ttft"),
                                   LAMBDA x : x # NoneF),
                         RecentTtftsMaxLen)
    /\ requests = <<>> =>
           /\ recent_ttcts =
                  LastOf(Column(stream_metrics, "ttct"), RecentTtctsMaxLen)
           /\ recent_ttfts =
                  LastOf(Column(stream_metrics, "ttft"), RecentTtftsMaxLen)
    /\ last.op = "record_request" =>
           LET b == last.before
               r == requests[Len(requests)]
           IN  /\ Pushed(b.request_times, request_times, r.timestamp,
                         RequestTimesMaxLen)
               /\ Pushed(b.recent_ttcts, recent_ttcts, r.ttct,
                         RecentTtctsMaxLen)
               /\ IF last.ttft = NoneF
                  THEN recent_ttfts = b.recent_ttfts
                  ELSE Pushed(b.recent_ttfts, recent_ttfts, last.ttft,
                              RecentTtftsMaxLen)
    /\ last.op = "record_stream_completion" =>
           LET b == last.before
           IN  /\ Pushed(b.recent_ttfts, recent_ttfts, last.ttft,
                         RecentTtftsMaxLen)
               /\ Pushed(b.recent_ttcts, recent_ttcts, last.ttct,
                         RecentTtctsMaxLen)
               /\ request_times = b.request_times

\* The request-time window after capacity + 2 insertions: it is full, the
\* two oldest timestamps (0 and 1) are gone and the third (2) is its first;
\* the TTCT window, full long since, begins with the duration of the call
\* made RecentTtctsMaxLen - 1 calls before the last.
C12_Witness ==
    /\ last.op = "record_request"
    /\ Len(requests) = RequestTimesMaxLen + 2
    /\ Len(request_times) = RequestTimesMaxLen
    /\ request_times[1] = 2
    /\ Len(recent_ttcts) = RecentTtctsMaxLen
    /\ recent_ttcts[1] = Len(requests) - RecentTtctsMaxLen + 1

---------------------------------------------------------------------------
(* Properties of the aggregators.                                          *)

\* The rate r = <<numerator, denominator>> is the quotient n / d.
IsQuotient(r, n, d) == r[2] # 0 /\ d # 0 /\ r[1] * d = n * r[2]

\* C13: get_success_rate divides by no zero and returns a number between 0
\* and 1: 0.0 when nothing is tallied (a fresh or reset collector, or one
\* that recorded streaming requests only), and success_count /
\* (success_count + failure_count) otherwise; the success_rate of a
\* TestResult is the same number.
C13_SuccessRate ==
    /\ last.op = "get_success_rate" =>
           LET r == last.result
           IN  /\ r[2] > 0
               /\ 0 <= r[1] /\ r[1] <= r[2]
               /\ Tallied(Self) = 0 => r[1] = 0
               /\ Tallied(Self) > 0 =>
                      IsQuotient(r, success_count, Tallied(Self))
    /\ last.op = "get_session_metrics" =>
           LET r == TestResult_success_rate(last.result)
           IN  /\ r[2] > 0
               /\ Tallied(Self) = 0 => r[1] = 0
               /\ Tallied(Self) > 0 =>
                      IsQuotient(r, success_count, Tallied(Self))

\* The success rate asked of a collector that has recorded two streaming
\* requests and tallied nothing.
C13_Witness ==
    /\ last.op = "get_success_rate"
    /\ last.result = <<0, 1>>
    /\ Len(requests) = 2
    /\ requests[1].is_stream
    /\ requests[2].is_stream
    /\ Tallied(Self) = 0

\* C14: get_current_rps returns 0.0 whenever fewer than 2 of the timestamps
\* of the request-time window lie within the 60 seconds before the call,
\* however many older ones the window holds.
C14_RpsZeroBelowTwoInWindow ==
    last.op = "get_current_rps" =>
        (Len(RecentRequests(last.before, last.now)) < 2 =>
             last.result[1] = 0)

\* C15: the avg_tokens_per_second of a TestResult is 0 when the recent TTCT
\* window is empty, and total_tokens divided by the sum of the samples of
\* that window when this sum can divide (it is positive); after one
\* record_stream_completion with ttct 1 and 50 tokens on a fresh collector
\* it is 50.
C15_AvgTokensPerSecond ==
    last.op = "get_session_metrics" =>
        LET avg == last.result.avg_tokens_per_second
        IN  /\ recent_ttcts = <<>> => avg[1] = 0 /\ avg[2] # 0
            /\ SumSeq(recent_ttcts) > 0 =>
                   IsQuotient(avg, total_tokens, SumSeq(recent_ttcts))
            /\ (/\ requests = <<>>
                /\ Len(stream_metrics) = 1
                /\ stream_metrics[1].ttct = 1
                /\ stream_metrics[1].token_count = 50) =>
                   IsQuotient(avg, 50, 1)

\* A TestResult of a collector whose window holds the duration 2 of a
\* request and the duration 1 of a stream of 50 tokens: 50 / 3.
C15_Witness ==
    /\ last.op = "get_session_metrics"
    /\ recent_ttcts = <<2, 1>>
    /\ total_tokens = 50
    /\ last.result.avg_tokens_per_second = <<50, 3>>

\* The keys of the statistics of a window that holds samples.
StatKeys == {"avg", "median", "p90", "p95", "min", "max"}

\* The statistics d belong to the window q: none for an empty window, all
\* six for any other.
StatsFit(d, q) == DOMAIN d = (IF q = <<>> THEN {} ELSE StatKeys)

\* The four values a TestResult takes from the statistics of a window are
\* None for an empty window and numbers for any other.
Reported(q, avg, p50, p90, p95) ==
    IF q = <<>>
    THEN {avg, p50, p90, p95} = {NoneRate}
    ELSE \A v \in {avg, p50, p90, p95} : v # NoneRate /\ v[2] # 0

\* C16: get_recent_latencies returns an empty dict for each of the two
\* windows that is empty, whatever the other holds, and get_session_metrics
\* then reports avg, p50, p90 and p95 of that window as None and those of
\* the other window as numbers.
C16_EmptyWindowGivesEmptyStats ==
    /\ last.op = "get_recent_latencies" =>
           /\ StatsFit(last.result[1], recent_ttfts)
           /\ StatsFit(last.result[2], recent_ttcts)
    /\ last.op = "get_session_metrics" =>
           LET r == last.result
           IN  /\ Reported(recent_ttfts, r.avg_ttft, r.p50_ttft, r.p90_ttft,
                           r.p95_ttft)
               /\ Reported(recent_ttcts, r.avg_ttct, r.p50_ttct, r.p90_ttct,
                           r.p95_ttct)

\* A TestResult of a collector that has recorded requests without ttft
\* only: the TTFT window is empty, the TTCT window is not.
C16_Witness ==
    /\ last.op = "get_session_metrics"
    /\ recent_ttfts = <<>>
    /\ Len(recent_ttcts) = 2
    /\ last.result.avg_ttft = NoneRate
    /\ last.result.p95_ttft = NoneRate
    /\ last.result.avg_ttct = <<4, 2>>

\* C17: no rate is a quotient by zero. The tokens_per_second of a stream
\* record is 0 when its ttct is 0 or less and token_count / ttct otherwise;
\* the avg_tokens_per_second of a TestResult is 0 when the samples of the
\* TTCT window sum to 0 or less; get_current_rps returns 0.0 when the
\* oldest timestamp within the last 60 seconds is not before the time of
\* the call; get_success_rate has a divisor too.
C17_NoZeroDenominator ==
    /\ \A i \in 1..Len(stream_metrics) :
           LET r == stream_metrics[i]
           IN  /\ r.tokens_per_second[2] # 0
               /\ r.ttct <= 0 => r.tokens_per_second[1] = 0
               /\ r.ttct > 0 =>
                      IsQuotient(r.tokens_per_second, r.token_count, r.ttct)
    /\ last.op = "get_session_metrics" =>
           LET avg == last.result.avg_tokens_per_second
           IN  /\ avg[2] # 0
               /\ (recent_ttcts # <<>> /\ SumSeq(recent_ttcts) <= 0) =>
                      avg[1] = 0
    /\ last.op = "get_current_rps" =>
           LET recent == RecentRequests(last.before, last.now)
           IN  /\ last.result[2] # 0
               /\ (recent # <<>> /\ last.now - MinSeq(recent) <= 0) =>
                      last.result[1] = 0
    /\ last.op = "get_success_rate" => last.result[2] # 0

\* A TestResult of a collector whose TTCT window holds the samples 1 and
\* -1 of two streams: 100 tokens, a sum of 0, the average 0.
C17_Witness ==
    /\ last.op = "get_session_metrics"
    /\ recent_ttcts = <<1, -1>>
    /\ total_tokens = 100
    /\ stream_metrics[2].tokens_per_second[1] = 0
    /\ last.result.avg_tokens_per_second[1] = 0

\* The aggregators.
Aggregators ==
    {"get_success_rate", "get_current_rps", "get_recent_latencies",
     "get_error_summary", "get_session_metrics"}

\* C18: an aggregator leaves the collector as it found it: every counter,
\* both histories, the error map with its set of keys, the three recent
\* windows, the partitions and the seen-set, also when the collector is as
\* constructed.
C18_AggregatorsChangeNothing ==
    last.op \in Aggregators =>
        /\ Self = last.before
        /\ DOMAIN errors = DOMAIN last.before.errors

\* A TestResult taken of a collector that holds a request, a stream and a
\* timeout.
C18_Witness ==
    /\ last.op = "get_session_metrics"
    /\ Len(requests) = 1
    /\ Len(stream_metrics) = 1
    /\ DOMAIN errors = {"timeout"}
    /\ sse_request_ids = {"r1"}
    /\ last.result.total_requests = 1

\* C19: what the holder of a TestResult reads in it stays what it was when
\* get_session_metrics returned it, in every field and in the error_types
\* mapping, whatever is recorded or reset afterwards: the TestResult holds
\* no object of the collector.
C19_SnapshotIsNotChanged ==
    held.taken =>
        /\ View(held.result, Self) = held.view
        /\ ~IsRef(held.result.error_types)

\* A TestResult with one request and one timeout, kept while another error
\* was recorded and the collector then reset.
C19_Witness ==
    /\ held.taken
    /\ last.op = "reset"
    /\ DOMAIN last.before.errors = {"timeout", "network"}
    /\ DOMAIN errors = {}
    /\ total_request_count = 0
    /\ held.result.total_requests = 1
    /\ held.result.failure_count = 1
    /\ View(held.result, Self).error_types = [k \in {"timeout"} |-> 1]

\* The sequence p is the beginning of the sequence q.
IsPrefix(p, q) == Len(p) <= Len(q) /\ SubSeq(q, 1, Len(p)) = p

\* C20: every step that is no reset leaves the full request history and the
\* stream history as they were or with records added at the end: no record
\* is removed, moved or changed, and neither history is cut down when it
\* grows beyond the capacity of a recent window.
C20_HistoriesAppendOnly ==
    [][\/ /\ last'.op = "reset"
          /\ requests' = <<>>
          /\ stream_metrics' = <<>>
       \/ /\ IsPrefix(requests, requests')
          /\ IsPrefix(stream_metrics, stream_metrics')]_vars

\* The full history holds more records than the request-time window can,
\* the first one recorded among them.
C20_Witness ==
    /\ last.op = "record_request"
    /\ Len(requests) = RequestTimesMaxLen + 1
    /\ requests[1].timestamp = 0
    /\ Len(request_times) = RequestTimesMaxLen
    /\ request_times[1] = 1

---------------------------------------------------------------------------
(* Properties of the export and of the lock.                               *)

\* The statements of save_results that make a directory or write a file.
IoLabels == SaveResultsBody

\* The statements that compute the percentiles of a window (np.median,
\* np.percentile: lines 270-279 and 281-290).
PercentileLabels == {"gl270", "gl281"}

\* C21: no thread holds the lock of the collector while it is at a
\* statement that does I/O (mkdir, to_csv, json.dump, the summary, the
\* charts and the report) or that sorts a window for its percentiles, so
\* that no thread that waits for the lock to record waits for such a
\* statement.
C21_NoIoUnderLock ==
    \A w \in Workers :
        /\ pc[w] \in IoLabels \cup PercentileLabels => lock.owner # w
        /\ pc[w] = "with_lock" /\ lock.owner \notin {NoWorker, w} =>
               pc[lock.owner] \notin IoLabels \cup PercentileLabels

\* The files of the result directory of the export of frame f.
FilesOf(f) == disk[f.result_dir]

\* The number of rows of a table the export of frame f has written; a
\* table it has not written has none.
RowsWritten(f, file) ==
    IF file \in f.wrote THEN Len(FilesOf(f)[file].rows) ELSE 0

\* The number of records of each error type in the errors document the
\* export of frame f has written; one it has not written has no type.
ErrorCountsWritten(f) ==
    IF "errors.json" \in f.wrote
    THEN [k \in DOMAIN FilesOf(f)["errors.json"] |->
             Len(FilesOf(f)["errors.json"][k])]
    ELSE EmptyDict

\* C22: once an export has written its summary document, the number of
\* rows of the full-request table it wrote is total_requests of the summary
\* and the counts per type of the errors document it wrote are error_types
\* of the summary, and the summary is the TestResult of one collector
\* state: the one the calls that took the lock before the export lead to,
\* whatever the other threads were calling meanwhile.
C22_ExportIsOfOneState ==
    \A w \in Workers :
        (frame[w].op = "save_results" /\ "summary.json" \in frame[w].wrote) =>
            LET summary == FilesOf(frame[w])["summary.json"]
            IN  /\ RowsWritten(frame[w], "requests.csv") = summary.total_requests
                /\ ErrorCountsWritten(frame[w]) = summary.error_types
                /\ summary = get_session_metrics(Replay(log),
                                                 frame[w].concurrent_users,
                                                 summary.timestamp)

\* An export has written its summary of one recorded request while another
\* thread waits for the lock to record.
C22_Witness ==
    \E w \in Workers, v \in Workers :
        /\ pc[w] = "sr384"
        /\ pc[v] = "with_lock"
        /\ lock.owner = w
        /\ log[Len(log)].contended
        /\ RowsWritten(frame[w], "requests.csv") = 1
        /\ FilesOf(frame[w])["summary.json"].total_requests = 1

\* The four artifacts of an export.
Artifacts == {"requests.csv", "stream_metrics.csv", "errors.json", "summary.json"}

\* Every record of the history is a row of the table, cell by cell, in the
\* order of the history.
HoldsRecords(table, history) ==
    /\ Len(table.rows) = Len(history)
    /\ \A i \in 1..Len(history), j \in 1..Len(table.header) :
           table.rows[i][j] = history[i][table.header[j]]

\* Every record of the error map is in the errors document, under its type.
HoldsErrors(document, errs) ==
    \A k \in DOMAIN errs :
        k \in DOMAIN document /\ document[k] = errs[k]

\* The result directory of the export of frame f holds the records of the
\* collector value s: those of each history or map that is not empty.
RecordsKept(f, s) ==
    LET files == FilesOf(f)
    IN  /\ s.requests # <<>> =>
               /\ "requests.csv" \in DOMAIN files
               /\ HoldsRecords(files["requests.csv"], s.requests)
        /\ s.stream_metrics # <<>> =>
               /\ "stream_metrics.csv" \in DOMAIN files
               /\ HoldsRecords(files["stream_metrics.csv"], s.stream_metrics)
        /\ s.errors # <<>> =>
               /\ "errors.json" \in DOMAIN files
               /\ HoldsErrors(files["errors.json"], s.errors)

\* C23 as stated: when an export has executed its last statement, its
\* result directory contains all four artifacts, and they hold every
\* record of the two histories and of the error map.
C23_ExportWritesAllArtifacts ==
    \A w \in Workers :
        (pc[w] = "sr_exit" /\ frame[w].op = "save_results") =>
            /\ Artifacts \subseteq DOMAIN FilesOf(frame[w])
            /\ RecordsKept(frame[w], Self)

\* C23, amended: when an export has executed its last statement, it has
\* written the summary document, and each of the full-request table, the
\* stream-metrics table and the errors document exactly when the history
\* or the map it is written from is not empty, and what it has written
\* holds every record of the two histories and of the error map.
C23_ExportWritesWhatIsHeld ==
    \A w \in Workers :
        (pc[w] = "sr_exit" /\ frame[w].op = "save_results") =>
            /\ "summary.json" \in frame[w].wrote
            /\ "requests.csv" \in frame[w].wrote <=> requests # <<>>
            /\ "stream_metrics.csv" \in frame[w].wrote <=> stream_metrics # <<>>
            /\ "errors.json" \in frame[w].wrote <=> errors # <<>>
            /\ RecordsKept(frame[w], Self)

\* An export of a collector that holds one request, no stream and no error
\* has ended: it wrote the table of the requests and the summary, and
\* neither the stream table nor the errors document.
C23_Witness ==
    \E w \in Workers :
        /\ pc[w] = "sr_exit"
        /\ frame[w].wrote \cap Artifacts = {"requests.csv", "summary.json"}
        /\ DOMAIN FilesOf(frame[w]) \cap Artifacts
               = {"requests.csv", "summary.json"}
        /\ Len(requests) = 1
        /\ stream_metrics = <<>>
        /\ errors = <<>>

---------------------------------------------------------------------------
(* Properties of the client and of the request ids.                        *)

\* The last call of the collector was a recording the client made of a
\* request or of the completion of a stream.
ClientRecorded ==
    /\ last.op \in {"record_request", "record_stream_completion"}
    /\ "caller" \in DOMAIN last

\* C24: every record_request and every record_stream_completion call of
\* the client passes a request_id, so that the id the collector files the
\* recording under is the one the client chose for the logical request and
\* not one the collector made up.
C24_ClientPassesRequestId ==
    ClientRecorded =>
        /\ last.passed_request_id # NoneId
        /\ last.request_id = last.passed_request_id

\* The record of the stream history h at position i was reported without a
\* request_id: its id is the one made of its endpoint and its timestamp.
ReportedWithoutId(h, i) ==
    h[i].request_id = h[i].endpoint \o "-" \o ToString(h[i].timestamp)

\* An earlier completion of the stream history h, reported without a
\* request_id, has the endpoint and the timestamp of the record rec.
SameEndpointAndTime(h, rec) ==
    \E i \in 1..Len(h) :
        /\ ReportedWithoutId(h, i)
        /\ h[i].endpoint = rec.endpoint
        /\ h[i].timestamp = rec.timestamp

\* C25: a stream completion reported without a request_id is filed under
\* its endpoint, a hyphen and its timestamp, and is tallied exactly when no
\* completion was filed under that id since the last reset: one that
\* follows another completion without a request_id of the same endpoint at
\* the same timestamp is not tallied, though it is another request.
C25_SyntheticIdCollides ==
    (last.op = "record_stream_completion"
         /\ last.passed_request_id = NoneId) =>
        LET rec == stream_metrics[Len(stream_metrics)]
            b == last.before
        IN  /\ rec.request_id
                   = rec.endpoint \o "-" \o ToString(rec.timestamp)
            /\ rec.request_id \in sse_request_ids
            /\ Tallied(Self) = Tallied(b)
                   + (IF rec.request_id \in b.sse_request_ids THEN 0 ELSE 1)
            /\ SameEndpointAndTime(b.stream_metrics, rec) =>
                   /\ success_count = b.success_count
                   /\ failure_count = b.failure_count

\* Two completions without a request_id at one time, the first a failure
\* and the second a success: both are in the stream history under one id,
\* and the tally is the failure alone.
C25_Witness ==
    /\ last.op = "record_stream_completion"
    /\ last.passed_request_id = NoneId
    /\ Len(stream_metrics) = 2
    /\ ReportedWithoutId(stream_metrics, 1)
    /\ stream_metrics[1].request_id = stream_metrics[2].request_id
    /\ stream_metrics[1].status_code = 500
    /\ stream_metrics[2].status_code = 200
    /\ clock = 1
    /\ success_count = 0
    /\ failure_count = 1
    /\ sse_request_ids = {"/x-1"}

\* The number of "with self._lock" blocks a thread at label is inside,
\* with the frame f.
Depth(label, f) ==
    IF label \in {"idle", "with_lock"} THEN 0
    ELSE LET inner == IF label \in {"gl270", "gl281", "gl292", "ge302",
                                    "ge302_exit"} THEN 1 ELSE 0
             middle == IF f.op = "save_results"
                          /\ label \in InsideGetSessionMetrics THEN 1 ELSE 0
         IN  1 + middle + inner

\* The lock has been taken as often as its owner is inside blocks of it,
\* and nobody else is inside one; a thread about to take the lock again
\* inside an operation is not blocked.
LockBalanced ==
    /\ lock.owner = NoWorker <=> lock.count = 0
    /\ \A w \in Workers :
           /\ Depth(pc[w], frame[w])
                  = (IF lock.owner = w THEN lock.count ELSE 0)
           /\ pc[w] \in {"sr377", "gm315", "gm316"} => LockFree(w)

\* C26: the lock is held exactly as often as it was taken and not yet
\* given back, a thread that takes it again inside save_results,
\* get_session_metrics, get_recent_latencies or get_error_summary is never
\* blocked, and under a fair scheduler every thread that waits for the lock
\* gets it, completes its operation and has given the lock back.
C26_LockReleasedAndFair ==
    /\ []LockBalanced
    /\ \A w \in Workers :
           (pc[w] = "with_lock") ~> (pc[w] = "idle" /\ lock.owner # w)

\* A thread is inside get_recent_latencies inside get_session_metrics
\* inside save_results and holds the lock three times, while the other
\* thread waits for the lock.
C26_Witness ==
    \E w \in Workers, v \in Workers :
        /\ pc[w] = "gl281"
        /\ frame[w].op = "save_results"
        /\ lock = [owner |-> w, count |-> 3]
        /\ pc[v] = "with_lock"


---------------------------------------------------------------------------

(* Properties of the counters.                                             *)

\* The request ids of the stream history of s.
StreamIds(s) ==
    {s.stream_metrics[i].request_id : i \in 1..Len(s.stream_metrics)}

\* The status code of the first record of request_id in the stream history.
FirstReported(s, request_id) ==
    LET reports == {i \in 1..Len(s.stream_metrics) :
                       s.stream_metrics[i].request_id = request_id}
        first == CHOOSE i \in reports : \A j \in reports : i <= j
    IN  s.stream_metrics[first].status_code

\* The streamed requests of s whose first report has a status in 200..299
\* (ok) or outside it (~ok).
StreamsDecided(s, ok) ==
    {id \in StreamIds(s) : IsSuccess(FirstReported(s, id)) = ok}

\* The non-streaming records of s with a status in 200..299 (ok) or not.
NonStreamDecided(s, ok) ==
    {i \in NonStreamCalls(s) : IsSuccess(s.requests[i].status_code) = ok}

\* C27: a streamed request is counted in success_count or in failure_count
\* by the status of the first record_stream_completion report of its
\* request_id alone: success_count is the non-streaming successes plus the
\* streamed requests first reported with a status in 200..299,
\* failure_count is the non-streaming failures, the streamed requests first
\* reported with another status and the errors; and a report of a
\* request_id tallied before leaves both counters as they were.
C27_FirstReportDecides ==
    /\ success_count = Cardinality(NonStreamDecided(Self, TRUE))
                         + Cardinality(StreamsDecided(Self, TRUE))
    /\ failure_count = Cardinality(NonStreamDecided(Self, FALSE))
                         + Cardinality(StreamsDecided(Self, FALSE))
                         + NumErrors(errors)
    /\ (/\ last.op = "record_stream_completion"
        /\ last.request_id \in last.before.sse_request_ids) =>
           /\ success_count = last.before.success_count
           /\ failure_count = last.before.failure_count

\* Request r1 was reported with 500 and then with 200: it stays a failure.
C27_Witness ==
    /\ last.op = "record_stream_completion"
    /\ last.status_code = 200
    /\ Len(stream_metrics) = 2
    /\ stream_metrics[1].request_id = "r1"
    /\ stream_metrics[1].status_code = 500
    /\ stream_metrics[2].request_id = "r1"
    /\ stream_metrics[2].status_code = 200
    /\ requests = <<>>
    /\ success_count = 0
    /\ failure_count = 1

\* C28: success_count + failure_count is the number of record_request
\* calls with is_stream = false, plus the number of distinct request ids
\* reported to record_stream_completion, plus the number of record_error
\* calls, all since the last reset.
C28_TalliedIsCallsIdsErrors ==
    Tallied(Self) = Cardinality(NonStreamCalls(Self))
                      + Cardinality(StreamIds(Self))
                      + NumErrors(errors)

\* A streaming record_request, then two completions of one request id: of
\* the three calls one is tallied.
C28_Witness ==
    /\ last.op = "record_stream_completion"
    /\ Len(requests) = 1
    /\ requests[1].is_stream
    /\ Len(stream_metrics) = 2
    /\ Cardinality(StreamIds(Self)) = 1
    /\ DOMAIN errors = {}
    /\ Tallied(Self) = 1

\* The sum of the counts of an error summary.
SumOfCounts(summary) ==
    LET RECURSIVE Sum(_)
        Sum(K) == IF K = {} THEN 0
                  ELSE LET k == CHOOSE x \in K : TRUE
                       IN  summary[k] + Sum(K \ {k})
    IN  Sum(DOMAIN summary)

\* C29: timeout_count is the count get_error_summary gives for "timeout"
\* (0 when "timeout" is no key of it), the counts of the summary sum up to
\* at most failure_count, and every error_type that is a key of the summary
\* has a count of at least 1.
C29_ErrorSummaryAgreesWithCounters ==
    /\ timeout_count = SummaryCount(Self, "timeout")
    /\ SumOfCounts(get_error_summary(Self)) <= failure_count
    /\ \A error_type \in DOMAIN get_error_summary(Self) :
           get_error_summary(Self)[error_type] >= 1

\* A timeout, a network error and a failed request: two errors of three
\* failures, one of them a timeout.
C29_Witness ==
    /\ "timeout" \in DOMAIN errors
    /\ "network" \in DOMAIN errors
    /\ get_error_summary(Self) = [k \in {"timeout", "network"} |-> 1]
    /\ timeout_count = 1
    /\ failure_count = 3
    /\ SumOfCounts(get_error_summary(Self)) = 2

\* C30: total_requests counts the streaming requests with the others: it is
\* at least the number of record_request calls with is_stream = false plus
\* the number of distinct request ids tallied by record_stream_completion,
\* so a stream the client reports through record_stream_completion alone
\* is in it.
C30_TotalCoversStreams ==
    total_request_count >= Cardinality(NonStreamCalls(Self))
                             + Cardinality(sse_request_ids)


---------------------------------------------------------------------------

(* Properties of the histories and of the frame of the recordings.         *)

\* The records of the sequence q that record_request made (a record of
\* record_stream_completion has no is_stream entry) and that have the
\* is_stream flag given.
RequestRecords(q, is_stream) ==
    LET Test(r) == "is_stream" \in DOMAIN r /\ r.is_stream = is_stream
    IN  SelectSeq(q, Test)

\* C31: total_requests is the length of the full request history, and the
\* records of the full history with is_stream = false are, in order and
\* number, the non-streaming partition and none of them is in the streaming
\* partition; those with is_stream = true are, in order and number, the
\* request records of the streaming partition and none of them is in the
\* non-streaming partition.
C31_HistoryIsPartitioned ==
    /\ total_request_count = Len(requests)
    /\ get_session_metrics(Self, 1, clock).total_requests = Len(requests)
    /\ non_sse_requests = RequestRecords(requests, FALSE)
    /\ RequestRecords(sse_requests, TRUE) = RequestRecords(requests, TRUE)
    /\ RequestRecords(sse_requests, FALSE) = <<>>
    /\ RequestRecords(non_sse_requests, TRUE) = <<>>

\* Three record_request calls, streaming and not.
C31_Witness ==
    /\ last.op = "record_request"
    /\ total_request_count = 3
    /\ Len(non_sse_requests) = 2
    /\ Len(sse_requests) = 1
    /\ requests[2].is_stream

\* C32: a record_request call pushes one sample, its ttct, to the recent
\* TTCT window and one timestamp to the request-time window; it pushes one
\* sample, its ttft, to the recent TTFT window when the ttft is given, and
\* leaves that window as it was when the ttft is None.
C32_RecordRequestPushes ==
    last.op = "record_request" =>
        LET b == last.before
            r == requests[Len(requests)]
        IN  /\ r.ttft = last.ttft
            /\ Pushed(b.recent_ttcts, recent_ttcts, r.ttct, RecentTtctsMaxLen)
            /\ Pushed(b.request_times, request_times, r.timestamp,
                      RequestTimesMaxLen)
            /\ (last.ttft = NoneF) => recent_ttfts = b.recent_ttfts
            /\ (last.ttft # NoneF) =>
                   Pushed(b.recent_ttfts, recent_ttfts, last.ttft,
                          RecentTtftsMaxLen)

\* A record_request without ttft on a collector whose TTFT window holds
\* samples: the TTFT window is as before, the TTCT window has one more.
C32_Witness ==
    /\ last.op = "record_request"
    /\ last.ttft = NoneF
    /\ last.before.recent_ttfts # <<>>
    /\ recent_ttfts = last.before.recent_ttfts
    /\ Len(recent_ttcts) = Len(last.before.recent_ttcts) + 1
    /\ Len(request_times) = Len(last.before.request_times) + 1

\* C33: a record_error call changes nothing but failure_count,
\* timeout_count and the error map: total_requests, success_count,
\* total_tokens, the two histories, the partitions, the three recent
\* windows, the seen-set of stream request ids and the session start are
\* as they were before the call.
C33_RecordErrorFrame ==
    last.op = "record_error" =>
        LET b == last.before
        IN  /\ total_request_count = b.total_request_count
            /\ success_count = b.success_count
            /\ total_tokens = b.total_tokens
            /\ requests = b.requests
            /\ stream_metrics = b.stream_metrics
            /\ request_times = b.request_times
            /\ recent_ttfts = b.recent_ttfts
            /\ recent_ttcts = b.recent_ttcts
            /\ sse_request_ids = b.sse_request_ids
            /\ sse_requests = b.sse_requests
            /\ non_sse_requests = b.non_sse_requests
            /\ sse_endpoints = b.sse_endpoints
            /\ non_sse_endpoints = b.non_sse_endpoints
            /\ session_start_time = b.session_start_time

\* A record_error call on a collector that holds a request and a stream.
C33_Witness ==
    /\ last.op = "record_error"
    /\ last.before.requests # <<>>
    /\ last.before.stream_metrics # <<>>
    /\ last.before.sse_request_ids # {}
    /\ failure_count = last.before.failure_count + 1
    /\ total_request_count = 1


---------------------------------------------------------------------------

(* Properties of the clients.                                              *)

\* The coroutine w is in _make_request, before an attempt.
Attempting(w) == pc[w] = "mr165"

\* Every failed attempt of the request under way has recorded one error,
\* and the attempts made are no more than max_retries + 1.
OneErrorPerFailedAttempt ==
    \A w \in Workers :
        Attempting(w) =>
            /\ frame[w].retry_count <= MaxRetries + 1
            /\ NumErrors(errors) = frame[w].errors_before + frame[w].retry_count

\* _make_request raises the max-retries error after max_retries + 1
\* attempts, each of which recorded one error.
RaisedAfterAllAttempts ==
    (last.op = "_make_request" /\ last.raised = "max_retries") =>
        /\ last.retry_count = MaxRetries + 1
        /\ NumErrors(errors) = last.errors_before + MaxRetries + 1

\* A step that records an error as "general" records one error, and the
\* request is not tried again: no coroutine is in _make_request after it.
GeneralNotRetried ==
    (SummaryCount(Self, "general")' # SummaryCount(Self, "general")) =>
        /\ SummaryCount(Self, "general")' = SummaryCount(Self, "general") + 1
        /\ NumErrors(errors') = NumErrors(errors) + 1
        /\ \E w \in Workers : Attempting(w)
        /\ \A w \in Workers : ~Attempting(w)'

\* C34: _make_request ends for every request: it makes at most
\* max_retries + 1 attempts, records one error for each attempt that fails
\* with a timeout or a network error, and raises the max-retries error when
\* all of them have failed; an error of another kind is recorded once as
\* "general" and the request is not retried; and a coroutine that is in
\* _make_request leaves it in the end.
C34_MakeRequestTerminates ==
    /\ []OneErrorPerFailedAttempt
    /\ []RaisedAfterAllAttempts
    /\ [][GeneralNotRetried]_vars
    /\ \A w \in Workers : Attempting(w) ~> ~Attempting(w)

\* All attempts of a request failed with a timeout or a network error and
\* the max-retries error has been raised.
C34_Witness ==
    /\ last.op = "_make_request"
    /\ last.raised = "max_retries"
    /\ last.errors_before = 0
    /\ NumErrors(errors) = MaxRetries + 1
    /\ DOMAIN errors \subseteq {"timeout", "network"}
    /\ requests = <<>>
    /\ \A w \in Workers : pc[w] = "idle"

\* The last step ended a stream that _handle_streaming_response was given.
StreamEnded == last.op # "none" /\ last.caller = "_handle_streaming_response"

\* C35: a stream that _handle_streaming_response was given and that its
\* caller consumed has recorded one outcome in the collector, one
\* record_stream_completion or one record_error, and its last event is
\* "done" after the completion and "error" after the error.
C35_OneOutcomePerStream ==
    StreamEnded =>
        /\ NumCalls(Self) = NumCalls(last.before) + 1
        /\ \/ /\ Len(stream_metrics) = Len(last.before.stream_metrics) + 1
              /\ last.event = "done"
           \/ /\ NumErrors(errors) = NumErrors(last.before.errors) + 1
              /\ last.event = "error"

\* The last step was a return of DreaminkFloraClient._make_request.
FloraReturned == last.op = "DreaminkFloraClient._make_request"

\* C36: DreaminkFloraClient._make_request makes at most max_retries
\* attempts and returns an APIResponse whatever the configuration and the
\* outcomes of the attempts are: the first HTTP response received ends the
\* loop, with success exactly for a status in 200..299, and when every
\* attempt has failed the APIResponse has status_code 0 and success false.
C36_AlwaysReturnsApiResponse ==
    FloraReturned =>
        /\ last.attempts <= last.max_retries
        /\ last.returned.type = "APIResponse"
        /\ last.discarded = 0
        /\ last.returned.success
               = (last.returned.status_code >= 200
                    /\ last.returned.status_code < 300)

\* The coroutine w has a client of the pool: it has popped one and has not
\* appended it again.
CheckedOut(w) == pc[w] \in {"ex582", "rc567", "rc568"}

\* The callers that have a client of the pool.
Holders == {w \in Workers : CheckedOut(w)}

\* The clients in the list of the pool.
InPool == {pool.clients[i] : i \in 1..Len(pool.clients)}

\* No client is held by two callers, or by a caller while it is in the
\* list, or twice in the list.
HeldByOne ==
    /\ \A w, v \in Holders : w # v => frame[w].client # frame[v].client
    /\ \A w \in Holders : frame[w].client \notin InPool
    /\ Cardinality(InPool) = Len(pool.clients)

\* execute ends only after release_client has appended the client it took
\* and released the permit, whether the method returned or raised.
ReturnedAtEnd ==
    \A w \in Workers :
        (pc[w] # "idle" /\ pc'[w] = "idle") =>
            /\ pc[w] = "rc569"
            /\ pool'.available = pool.available + 1
            /\ last'.op = "execute"
            /\ last'.client = frame[w].client
            /\ last'.raised = (IF frame[w].raised THEN "Exception" ELSE "None")

\* C37: with concurrent calls of ClientPool.execute no client is held by
\* two callers at once, get_client pops from a list that is not empty, the
\* clients in the list and the clients checked out are together as many as
\* the pool was built with, and execute has put its client back when it
\* ends, also when the method called raised.
C37_PoolKeepsItsClients ==
    /\ [](pool.built =>
            /\ HeldByOne
            /\ \A w \in Workers : pc[w] = "gc559" => pool.clients # <<>>
            /\ Len(pool.clients) + Cardinality(Holders) = pool.size
            /\ pool.available <= Len(pool.clients))
    /\ [][ReturnedAtEnd]_vars

\* A pool of one client: one caller has put the client back after its
\* method raised, the other one has it now.
C37_Witness ==
    /\ pool.built
    /\ pool.size = 1
    /\ last.op = "execute"
    /\ last.raised = "Exception"
    /\ \E w \in Workers : CheckedOut(w) /\ frame[w].client = last.client
    /\ pool.clients = <<>>

\* C38: get_user_id returns the user id of the current token: after
\* get_token calls, with a user_id or without, the user id it returns is
\* the one whose token the last get_token call returned.
C38_UserIdOfCurrentToken ==
    (/\ last.op = "get_user_id"
     /\ last.raised = "None"
     /\ client.current_token # NoneId) =>
        TokenOf(client, last.returned) = client.current_token

\* C39: the TestRunner runs one test at a time: run_locust_test is refused
\* as "test already running" exactly when a test process started before
\* has neither ended nor been stopped; and when stop_current_test has
\* returned, the process reference is cleared, get_test_status gives
\* "no_test_running" and run_locust_test is not refused.
C39_OneTestAtATime ==
    /\ last.op = "run_locust_test" =>
           (last.result = "error: test already running") = last.alive
    /\ last.op = "stop_current_test" =>
           /\ runner.current_test_process = NoProcess
           /\ get_test_status(runner) = "no_test_running"
           /\ ~Refused(runner)

=============================================================================
